---- MODULE Spec2Model ----
(***************************************************************************)
(* Model of the service-ticket signature analyzer                          *)
(* (samskrta/sd_ticket_signature_analyzer).                                *)
(*                                                                         *)
(* Python values are modelled as follows.                                  *)
(*   str      a sequence of one-character strings, <<"K","y"," ","S">>     *)
(*   None     NoneVal, the one-element sequence <<"None">>; no str value   *)
(*            equals it, because every element of a str is one character   *)
(*   float    a ratio is a pair <<numerator, denominator>> compared by     *)
(*            cross multiplication; a confidence is an integer number of   *)
(*            hundredths (0.92 is 92)                                      *)
(*   raise    an outcome record with raised = TRUE and the exception name  *)
(***************************************************************************)
EXTENDS Integers, Sequences, FiniteSets, TLC

VARIABLES
    KNOWN_TECHS,      \* tech_names.KNOWN_TECHS, the module-level list
    OCR_CORRECTIONS,  \* tech_names.OCR_CORRECTIONS, the module-level dict
    last,             \* the last call made: its name, arguments and outcome
    batch,            \* the batch run in progress: its position, list, records
    sink,             \* the persistent store: audit.db or the "Audit Log" sheet
    now,              \* datetime.now(), counted in runs and database calls started
    threads           \* where each thread stands inside add_known_tech

vars == <<KNOWN_TECHS, OCR_CORRECTIONS, last, batch, sink, now, threads>>

NoneVal == <<"None">>

(***************************************************************************)
(* Characters.  CODE_ORDER lists the characters the model uses in          *)
(* ascending code-point order, which is the order Python compares str by.  *)
(***************************************************************************)
UPPER == <<"A","B","C","D","E","F","G","H","I","J","K","L","M",
           "N","O","P","Q","R","S","T","U","V","W","X","Y","Z">>
LOWER == <<"a","b","c","d","e","f","g","h","i","j","k","l","m",
           "n","o","p","q","r","s","t","u","v","w","x","y","z">>
DIGITS == <<"0","1","2","3","4","5","6","7","8","9">>

CODE_ORDER == <<"\t", "\n", " ", "#", "-", ".", "/">> \o DIGITS \o <<":">>
              \o UPPER \o <<"\\", "_">> \o LOWER \o <<"|">>

Range(s) == {s[i] : i \in 1..Len(s)}

IsUpper(c) == c \in Range(UPPER)
IsLower(c) == c \in Range(LOWER)
IsAlpha(c) == IsUpper(c) \/ IsLower(c)
IsDigit(c) == c \in Range(DIGITS)
IsSpace(c) == c \in {" ", "\t", "\n"}

Ord(c) == CHOOSE i \in 1..Len(CODE_ORDER) : CODE_ORDER[i] = c

\* str.lower() on one character
LowerChar(c) == IF IsUpper(c) THEN LOWER[CHOOSE i \in 1..26 : UPPER[i] = c] ELSE c
\* str.upper() on one character
UpperChar(c) == IF IsLower(c) THEN UPPER[CHOOSE i \in 1..26 : LOWER[i] = c] ELSE c

\* str.lower()
lower(s) == [i \in 1..Len(s) |-> LowerChar(s[i])]

\* str.strip(): drops leading and trailing whitespace
RECURSIVE lstrip(_)
lstrip(s) == IF s # <<>> /\ IsSpace(Head(s)) THEN lstrip(Tail(s)) ELSE s
RECURSIVE rstrip(_)
rstrip(s) ==
    IF s # <<>> /\ IsSpace(s[Len(s)]) THEN rstrip(SubSeq(s, 1, Len(s) - 1)) ELSE s
strip(s) == rstrip(lstrip(s))

\* a < b for two str values (lexicographic by code point)
RECURSIVE StrLess(_, _)
StrLess(a, b) ==
    IF b = <<>> THEN FALSE
    ELSE IF a = <<>> THEN TRUE
    ELSE IF Head(a) # Head(b) THEN Ord(Head(a)) < Ord(Head(b))
    ELSE StrLess(Tail(a), Tail(b))

(***************************************************************************)
(* tech_names.py: the correction table and the initial registry.           *)
(***************************************************************************)
\* the correction table with the entry "Chuck B": "Chuck D" entered backwards
OCR_CORRECTIONS_entry_reversed ==
       (<<"D", "g", "r", "t", "e", "y", " ", "B">> :> <<"D", "a", "r", "r", "e", "n", " ", "B">>) @@
       (<<"N", "i", "g", "h", " ", "F">> :> <<"N", "i", "c", "k", " ", "F">>) @@
       (<<"A", "a", "p", " ", "B">> :> <<"A", "n", "t", "h", "o", "n", "y", " ", "B">>) @@
       (<<"C", "h", "u", "g", "k", " ", "B">> :> <<"C", "h", "u", "c", "k", " ", "D">>) @@
       (<<"C", "h", "u", "g", "k", " ", "D">> :> <<"C", "h", "u", "c", "k", " ", "D">>) @@
       (<<"K", "o", "b", "y", " ", "A">> :> <<"K", "o", "b", "y", " ", "H">>) @@
       (<<"K", "o", "b", "y", " ", "I">> :> <<"K", "o", "b", "y", " ", "H">>) @@
       (<<"K", "o", "b", "y", " ", "D">> :> <<"K", "o", "b", "y", " ", "H">>) @@
       (<<"D", "a", "r", "r", "e", "n", " ", "P">> :> <<"D", "a", "r", "r", "e", "n", " ", "B">>) @@
       (<<"D", "a", "r", "r", "e", "n", " ", "D">> :> <<"D", "a", "r", "r", "e", "n", " ", "B">>) @@
       (<<"C", "h", "u", "c", "k", " ", "D">> :> <<"C", "h", "u", "c", "k", " ", "B">>) @@
       (<<"C", "h", "u", "c", "k", " ", "B">> :> <<"C", "h", "u", "c", "k", " ", "D">>) @@
       (<<"C", "h", "a", "n", "c", "e", " ", "A">> :> <<"C", "h", "a", "n", "c", "e", " ", "H">>) @@
       (<<"C", "h", "a", "n", "c", "e", " ", "I">> :> <<"C", "h", "a", "n", "c", "e", " ", "H">>)

INITIAL_OCR_CORRECTIONS ==
       (<<"D", "g", "r", "t", "e", "y", " ", "B">> :> <<"D", "a", "r", "r", "e", "n", " ", "B">>) @@
       (<<"N", "i", "g", "h", " ", "F">> :> <<"N", "i", "c", "k", " ", "F">>) @@
       (<<"A", "a", "p", " ", "B">> :> <<"A", "n", "t", "h", "o", "n", "y", " ", "B">>) @@
       (<<"C", "h", "u", "g", "k", " ", "B">> :> <<"C", "h", "u", "c", "k", " ", "D">>) @@
       (<<"C", "h", "u", "g", "k", " ", "D">> :> <<"C", "h", "u", "c", "k", " ", "D">>) @@
       (<<"K", "o", "b", "y", " ", "A">> :> <<"K", "o", "b", "y", " ", "H">>) @@
       (<<"K", "o", "b", "y", " ", "I">> :> <<"K", "o", "b", "y", " ", "H">>) @@
       (<<"K", "o", "b", "y", " ", "D">> :> <<"K", "o", "b", "y", " ", "H">>) @@
       (<<"D", "a", "r", "r", "e", "n", " ", "P">> :> <<"D", "a", "r", "r", "e", "n", " ", "B">>) @@
       (<<"D", "a", "r", "r", "e", "n", " ", "D">> :> <<"D", "a", "r", "r", "e", "n", " ", "B">>) @@
       (<<"C", "h", "u", "c", "k", " ", "B">> :> <<"C", "h", "u", "c", "k", " ", "D">>) @@
       (<<"C", "h", "a", "n", "c", "e", " ", "A">> :> <<"C", "h", "a", "n", "c", "e", " ", "H">>) @@
       (<<"C", "h", "a", "n", "c", "e", " ", "I">> :> <<"C", "h", "a", "n", "c", "e", " ", "H">>)

INITIAL_KNOWN_TECHS == <<
       <<"A", "l", "i", " ", "Z">>,
       <<"A", "n", "t", "h", "o", "n", "y", " ", "A">>,
       <<"A", "n", "t", "h", "o", "n", "y", " ", "B">>,
       <<"A", "u", "s", "t", "i", "n", " ", "L">>,
       <<"B", "r", "y", "c", "e", " ", "K">>,
       <<"C", "h", "a", "n", "c", "e", " ", "H">>,
       <<"C", "h", "r", "i", "s", " ", "S">>,
       <<"C", "h", "u", "c", "k", " ", "D">>,
       <<"D", "a", "r", "r", "e", "n", " ", "B">>,
       <<"D", "a", "r", "r", "i", "n", " ", "S">>,
       <<"D", "e", "r", "e", "k", " ", "F">>,
       <<"J", "i", "m", "m", "y", " ", "Y">>,
       <<"K", "e", "l", "v", "i", "n", " ", "B">>,
       <<"K", "o", "b", "y", " ", "H">>,
       <<"K", "y", " ", "S">>,
       <<"L", "u", "c", "a", "s", " ", "H">>,
       <<"M", "a", "r", "k", " ", "F">>,
       <<"M", "i", "c", "h", "a", "e", "l", " ", "M">>,
       <<"M", "i", "k", "e", " ", "F">>,
       <<"N", "i", "c", "k", " ", "F">>,
       <<"R", "o", "r", "y", " ", "T">>,
       <<"S", "h", "a", "n", "n", "o", "n", " ", "G">>,
       <<"T", "r", "a", "v", "i", "s", " ", "M">> >>

(***************************************************************************)
(* difflib.SequenceMatcher(None, a, b).ratio(), as similarity() uses it.   *)
(* No element is junk: isjunk is None and the automatic junk heuristic     *)
(* only applies to a second sequence of 200 or more elements.              *)
(***************************************************************************)
\* length of the common run a[i:], b[j:] inside a[:ahi], b[:bhi] (0-based)
RECURSIVE CommonRun(_, _, _, _, _, _)
CommonRun(a, b, i, j, ahi, bhi) ==
    IF i < ahi /\ j < bhi /\ a[i + 1] = b[j + 1]
    THEN 1 + CommonRun(a, b, i + 1, j + 1, ahi, bhi)
    ELSE 0

\* SequenceMatcher.find_longest_match: the longest block, of these the one
\* starting earliest in a, of these the one starting earliest in b;
\* (alo, blo, 0) when no element matches
find_longest_match(a, b, alo, ahi, blo, bhi) ==
    LET pairs == (alo..(ahi - 1)) \X (blo..(bhi - 1))
        run(p) == CommonRun(a, b, p[1], p[2], ahi, bhi)
        hits == {p \in pairs : run(p) > 0}
    IN  IF hits = {} THEN [i |-> alo, j |-> blo, size |-> 0]
        ELSE LET p == CHOOSE p \in hits : \A q \in hits :
                          \/ run(p) > run(q)
                          \/ run(p) = run(q) /\ p[1] < q[1]
                          \/ run(p) = run(q) /\ p[1] = q[1] /\ p[2] <= q[2]
             IN  [i |-> p[1], j |-> p[2], size |-> run(p)]

\* the sum of the sizes of SequenceMatcher.get_matching_blocks()
RECURSIVE MatchingSize(_, _, _, _, _, _)
MatchingSize(a, b, alo, ahi, blo, bhi) ==
    IF alo >= ahi \/ blo >= bhi THEN 0
    ELSE LET m == find_longest_match(a, b, alo, ahi, blo, bhi)
         IN  IF m.size = 0 THEN 0
             ELSE m.size
                  + MatchingSize(a, b, alo, m.i, blo, m.j)
                  + MatchingSize(a, b, m.i + m.size, ahi, m.j + m.size, bhi)

\* SequenceMatcher.ratio(): 2.0 * matches / length, 1.0 when both are empty
ratio(a, b) ==
    IF Len(a) + Len(b) = 0 THEN <<1, 1>>
    ELSE <<2 * MatchingSize(a, b, 0, Len(a), 0, Len(b)), Len(a) + Len(b)>>

similarity(a, b) == ratio(lower(a), lower(b))

\* comparisons of two ratios
RatioGT(x, y) == x[1] * y[2] > y[1] * x[2]
RatioGE(x, y) == x[1] * y[2] >= y[1] * x[2]

\* the acceptance threshold 0.65 of normalize_tech_name
FUZZY_THRESHOLD == <<65, 100>>

\* the loop with "score >= best_score": the last of several equal scores wins
RECURSIVE BestMatch_last_wins(_, _, _, _)
BestMatch_last_wins(name, techs, k, best) ==
    IF k > Len(techs) THEN best
    ELSE LET score == similarity(name, techs[k])
         IN  IF RatioGE(score, best.score)
             THEN BestMatch_last_wins(name, techs, k + 1, [score |-> score, match |-> techs[k]])
             ELSE BestMatch_last_wins(name, techs, k + 1, best)

\* the loop of normalize_tech_name over KNOWN_TECHS[k..]
RECURSIVE BestMatch(_, _, _, _)
BestMatch(name, techs, k, best) ==
    IF k > Len(techs) THEN best
    ELSE LET score == similarity(name, techs[k])
         IN  IF RatioGT(score, best.score)
             THEN BestMatch(name, techs, k + 1, [score |-> score, match |-> techs[k]])
             ELSE BestMatch(name, techs, k + 1, best)

\* normalize_tech_name returning the trimmed input when nothing matches
normalize_tech_name_raw_fallback(name) ==
    IF name = NoneVal \/ name = <<>> THEN NoneVal
    ELSE LET n == strip(name)
         IN  IF n \in DOMAIN OCR_CORRECTIONS THEN OCR_CORRECTIONS[n]
             ELSE IF n \in Range(KNOWN_TECHS) THEN n
             ELSE LET best == BestMatch(n, KNOWN_TECHS, 1,
                                        [score |-> <<0, 1>>, match |-> NoneVal])
                  IN  IF RatioGE(best.score, FUZZY_THRESHOLD) THEN best.match
                      ELSE n

\* normalize_tech_name looking the name up in KNOWN_TECHS before the table
normalize_tech_name_known_first(name) ==
    IF name = NoneVal \/ name = <<>> THEN NoneVal
    ELSE LET n == strip(name)
         IN  IF n \in Range(KNOWN_TECHS) THEN n
             ELSE IF n \in DOMAIN OCR_CORRECTIONS THEN OCR_CORRECTIONS[n]
             ELSE LET best == BestMatch(n, KNOWN_TECHS, 1,
                                        [score |-> <<0, 1>>, match |-> NoneVal])
                  IN  IF RatioGE(best.score, FUZZY_THRESHOLD) THEN best.match
                      ELSE NoneVal

\* normalize_tech_name handing a falsy input back as it came
normalize_tech_name_falsy_passthrough(name) ==
    IF name = NoneVal \/ name = <<>> THEN name
    ELSE LET n == strip(name)
         IN  IF n \in DOMAIN OCR_CORRECTIONS THEN OCR_CORRECTIONS[n]
             ELSE IF n \in Range(KNOWN_TECHS) THEN n
             ELSE LET best == BestMatch(n, KNOWN_TECHS, 1,
                                        [score |-> <<0, 1>>, match |-> NoneVal])
                  IN  IF RatioGE(best.score, FUZZY_THRESHOLD) THEN best.match
                      ELSE NoneVal

normalize_tech_name(name) ==
    IF name = NoneVal \/ name = <<>> THEN NoneVal
    ELSE LET n == strip(name)
         IN  IF n \in DOMAIN OCR_CORRECTIONS THEN OCR_CORRECTIONS[n]
             ELSE IF n \in Range(KNOWN_TECHS) THEN n
             ELSE LET best == BestMatch(n, KNOWN_TECHS, 1,
                                        [score |-> <<0, 1>>, match |-> NoneVal])
                  IN  IF RatioGE(best.score, FUZZY_THRESHOLD) THEN best.match
                      ELSE NoneVal

\* list.sort() on a list of str
RECURSIVE InsertSorted(_, _)
InsertSorted(s, x) ==
    IF s = <<>> THEN <<x>>
    ELSE IF StrLess(x, Head(s)) THEN <<x>> \o s
    ELSE <<Head(s)>> \o InsertSorted(Tail(s), x)
RECURSIVE sort(_)
sort(s) == IF s = <<>> THEN <<>> ELSE InsertSorted(sort(SubSeq(s, 1, Len(s) - 1)), s[Len(s)])

add_known_tech_unsorted(techs, name) ==
    IF name # <<>> /\ name \notin Range(techs)
    THEN Append(techs, name)
    ELSE techs

\* add_known_tech(name): the value of KNOWN_TECHS after the call
add_known_tech(techs, name) ==
    IF name # <<>> /\ name \notin Range(techs)
    THEN sort(Append(techs, name))
    ELSE techs

(***************************************************************************)
(* Regular expressions, as re.search runs them: the leftmost match, and    *)
(* at one start the first match in backtracking order (every quantifier    *)
(* greedy).  A pattern is a sequence of items:                             *)
(*   [t |-> "rep", cls, min, max]  min..max characters of the class cls    *)
(*                                 (max = INF: no upper limit)             *)
(*   [t |-> "open", g] and [t |-> "close", g]   the limits of group g      *)
(*   [t |-> "opt", sub]            (?: sub )?                              *)
(*   [t |-> "star", sub]           (?: sub )*                              *)
(*   [t |-> "alt", subs]           (?: subs[1] | subs[2] | ... )           *)
(* A match is [ok, start, end, groups]; positions are 0-based, and a group *)
(* that did not take part is <<-1, -1>>.                                   *)
(***************************************************************************)
INF == 1000000
MAX_GROUPS == 3

Rep(cls, min, max) == [t |-> "rep", cls |-> cls, min |-> min, max |-> max]
One(cls) == Rep(cls, 1, 1)
Open(g) == [t |-> "open", g |-> g]
Close(g) == [t |-> "close", g |-> g]
Opt(sub) == [t |-> "opt", sub |-> sub]
Star(sub) == [t |-> "star", sub |-> sub]
Alt(subs) == [t |-> "alt", subs |-> subs]

\* a literal word; with re.IGNORECASE each letter matches both cases
Lit(word) == [i \in 1..Len(word) |-> One({word[i]})]
LitI(word) == [i \in 1..Len(word) |-> One({LowerChar(word[i]), UpperChar(word[i])})]

NoMatch == [ok |-> FALSE]

\* the number of characters of the class at text[pos:], at most max
RECURSIVE RunLength(_, _, _, _)
RunLength(text, cls, pos, max) ==
    IF max > 0 /\ pos < Len(text) /\ text[pos + 1] \in cls
    THEN 1 + RunLength(text, cls, pos + 1, max - 1)
    ELSE 0

RECURSIVE MatchHere(_, _, _, _)
RECURSIVE TryRep(_, _, _, _, _, _)
RECURSIVE TryAlt(_, _, _, _, _, _)

\* the item sequence `items` matched at text[pos:]
MatchHere(text, items, pos, groups) ==
    IF items = <<>> THEN [ok |-> TRUE, end |-> pos, groups |-> groups]
    ELSE LET it == Head(items)
             rest == Tail(items)
         IN  CASE it.t = "rep" ->
                    TryRep(text, rest, pos, RunLength(text, it.cls, pos, it.max), it.min, groups)
               [] it.t = "open" ->
                    MatchHere(text, rest, pos, [groups EXCEPT ![it.g] = <<pos, -1>>])
               [] it.t = "close" ->
                    MatchHere(text, rest, pos, [groups EXCEPT ![it.g] = <<groups[it.g][1], pos>>])
               [] it.t = "opt" ->
                    LET r == MatchHere(text, it.sub \o rest, pos, groups)
                    IN  IF r.ok THEN r ELSE MatchHere(text, rest, pos, groups)
               [] it.t = "star" ->
                    LET r == MatchHere(text, it.sub \o <<it>> \o rest, pos, groups)
                    IN  IF r.ok THEN r ELSE MatchHere(text, rest, pos, groups)
               [] it.t = "alt" ->
                    TryAlt(text, it.subs, 1, rest, pos, groups)

\* a repetition taking n characters, then n - 1, ... down to min
TryRep(text, rest, pos, n, min, groups) ==
    IF n < min THEN NoMatch
    ELSE LET r == MatchHere(text, rest, pos + n, groups)
         IN  IF r.ok THEN r ELSE TryRep(text, rest, pos, n - 1, min, groups)

\* the alternatives subs[k], subs[k + 1], ... in order
TryAlt(text, subs, k, rest, pos, groups) ==
    IF k > Len(subs) THEN NoMatch
    ELSE LET r == MatchHere(text, subs[k] \o rest, pos, groups)
         IN  IF r.ok THEN r ELSE TryAlt(text, subs, k + 1, rest, pos, groups)

RECURSIVE SearchFrom(_, _, _)
SearchFrom(text, items, start) ==
    IF start > Len(text) THEN NoMatch
    ELSE LET r == MatchHere(text, items, start, [g \in 1..MAX_GROUPS |-> <<-1, -1>>])
         IN  IF r.ok THEN [ok |-> TRUE, start |-> start, end |-> r.end, groups |-> r.groups]
             ELSE SearchFrom(text, items, start + 1)

\* re.search(pattern, text)
search(items, text) == SearchFrom(text, items, 0)

\* match.group(g)
group(text, m, g) == SubSeq(text, m.groups[g][1] + 1, m.groups[g][2])

\* the character classes of the patterns, over the characters of CODE_ORDER
ALPHA == Range(UPPER) \cup Range(LOWER)
DIGIT == Range(DIGITS)
SPACE == {" ", "\t", "\n"}
WORD == ALPHA \cup DIGIT \cup {"_"}

(***************************************************************************)
(* ticket_analyzer.py: the field extractors of TicketAnalyzer.             *)
(***************************************************************************)
\* str.replace(old, new) for a one-character old
RECURSIVE replace(_, _, _)
replace(text, old, new) ==
    IF text = <<>> THEN <<>>
    ELSE (IF Head(text) = old THEN new ELSE <<Head(text)>>) \o replace(Tail(text), old, new)

\* re.sub(r'[^\w\s]', ' ', text)
sub_special(text) ==
    [i \in 1..Len(text) |-> IF text[i] \in WORD \cup SPACE THEN text[i] ELSE " "]

\* re.sub(r'\s+', ' ', text)
RECURSIVE sub_whitespace(_)
sub_whitespace(text) ==
    IF text = <<>> THEN <<>>
    ELSE IF Head(text) \in SPACE
    THEN <<" ">> \o sub_whitespace(SubSeq(text, RunLength(text, SPACE, 0, INF) + 1, Len(text)))
    ELSE <<Head(text)>> \o sub_whitespace(Tail(text))

\* the clean-up of _extract_technician (lines 144-146)
clean_ocr_text(text) ==
    sub_whitespace(sub_special(
        replace(replace(replace(text, "|", <<"I">>), "/", <<>>), "\\", <<>>)))

\* str.title() and str.upper()
title(s) ==
    [i \in 1..Len(s) |->
        IF i = 1 \/ s[i - 1] \notin ALPHA THEN UpperChar(s[i]) ELSE LowerChar(s[i])]
upper(s) == [i \in 1..Len(s) |-> UpperChar(s[i])]

pattern1_without_ld ==
    LitI(<<"b", "y">>) \o
    <<Rep(SPACE, 1, INF), Open(1), One(ALPHA), Rep(ALPHA, 1, INF), Close(1),
      Rep(SPACE, 1, INF), Open(2), One(ALPHA), Close(2), Rep(SPACE, 1, INF),
      Open(3), One(ALPHA), Rep(ALPHA, 1, INF), Close(3)>>

\* the three patterns of _extract_technician, compiled with re.IGNORECASE
pattern1 ==
    LitI(<<"b", "y">>) \o
    <<Rep(SPACE, 1, INF), Open(1), One(ALPHA), Rep(ALPHA, 1, INF), Close(1),
      Rep(SPACE, 1, INF), Open(2), One(ALPHA), Close(2), Rep(SPACE, 1, INF),
      Opt(LitI(<<"L", "d">>) \o <<Rep(SPACE, 1, INF)>>),
      Open(3), One(ALPHA), Rep(ALPHA, 1, INF), Close(3)>>
pattern2 ==
    LitI(<<"b", "y">>) \o
    <<Rep(SPACE, 1, INF), Open(1), One(ALPHA), Rep(ALPHA, 1, INF), Close(1),
      Rep(SPACE, 1, INF), Open(2), One(ALPHA), Close(2),
      Open(3), One(ALPHA), Rep(ALPHA, 1, INF), Close(3)>>
pattern3 ==
    LitI(<<"b", "y">>) \o
    <<Rep(SPACE, 1, INF), Open(1), One(ALPHA), Rep(ALPHA, 1, INF), Close(1),
      Rep(SPACE, 1, INF), Open(2), One(ALPHA), Close(2)>>

\* f"{first_name} {last_initial}"
FullName(text, m) == title(group(text, m, 1)) \o <<" ">> \o upper(group(text, m, 2))

extract_technician_pattern2_first(raw) ==
    LET text == clean_ocr_text(raw)
        m1 == search(pattern1, text)
        m2 == search(pattern2, text)
        m3 == search(pattern3, text)
    IN  IF m2.ok THEN <<FullName(text, m2), group(text, m2, 3)>>
        ELSE IF m1.ok THEN <<FullName(text, m1), group(text, m1, 3)>>
        ELSE IF m3.ok THEN <<FullName(text, m3), NoneVal>>
        ELSE <<NoneVal, NoneVal>>

\* _extract_technician(text): <<name, role>>
extract_technician(raw) ==
    LET text == clean_ocr_text(raw)
        m1 == search(pattern1, text)
        m2 == search(pattern2, text)
        m3 == search(pattern3, text)
    IN  IF m1.ok THEN <<FullName(text, m1), group(text, m1, 3)>>
        ELSE IF m2.ok THEN <<FullName(text, m2), group(text, m2, 3)>>
        ELSE IF m3.ok THEN <<FullName(text, m3), NoneVal>>
        ELSE <<NoneVal, NoneVal>>

ticket_number_pattern_from_four == <<One({"#"}), Open(1), Rep(DIGIT, 4, 7), Close(1)>>

\* _extract_ticket_number(text): re.search(r"#(\d{5,7})", text)
ticket_number_pattern == <<One({"#"}), Open(1), Rep(DIGIT, 5, 7), Close(1)>>
extract_ticket_number(text) ==
    LET m == search(ticket_number_pattern, text)
    IN  IF m.ok THEN group(text, m, 1) ELSE NoneVal

date_pattern_long_year ==
    <<Open(1), Rep(DIGIT, 1, 2), One({"/"}), Rep(DIGIT, 1, 2), One({"/"}),
      Rep(DIGIT, 2, 4), Close(1)>>

\* _extract_date(text): re.search(r"(\d{1,2}/\d{1,2}/\d{2})", text)
date_pattern ==
    <<Open(1), Rep(DIGIT, 1, 2), One({"/"}), Rep(DIGIT, 1, 2), One({"/"}),
      Rep(DIGIT, 2, 2), Close(1)>>
extract_date(text) ==
    LET m == search(date_pattern, text)
    IN  IF m.ok THEN group(text, m, 1) ELSE NoneVal

\* needle in text, for two str values
Contains(text, needle) ==
    \E i \in 0..(Len(text) - Len(needle)) : SubSeq(text, i + 1, i + Len(needle)) = needle

LEGAL_TEXT == <<"I", " ", "h", "a", "v", "e", " ", "r", "e", "v", "i", "e", "w", "e", "d",
                " ", "t", "h", "i", "s", " ", "f", "o", "r", "m">>

(***************************************************************************)
(* Images.  The bytes of an image are modelled by what PIL decodes from    *)
(* them: whether they decode at all, the size, and the luminance           *)
(* convert("L") gives each pixel.  The page is paper (img.paper) with one  *)
(* pen stroke: `ink` pixels of luminance `lum`, laid row by row in rows of *)
(* stroke.w pixels from (stroke.x, stroke.y).  Pixels outside the image    *)
(* are 0, as PIL fills them when a crop box reaches outside.               *)
(***************************************************************************)
IsInk(img, x, y) ==
    /\ x >= img.stroke.x /\ x < img.stroke.x + img.stroke.w
    /\ y >= img.stroke.y
    /\ (y - img.stroke.y) * img.stroke.w + (x - img.stroke.x) < img.ink

Lum(img, x, y) ==
    IF x < 0 \/ y < 0 \/ x >= img.width \/ y >= img.height THEN 0
    ELSE IF IsInk(img, x, y) THEN img.lum
    ELSE img.paper

\* int(n * 0.pct): the truncated float product.  It equals the integer
\* quotient for every n below 150, the sizes the model uses.
IntPct(n, pct) == (n * pct) \div 100

Returned(has_signature, confidence) ==
    [raised |-> FALSE, has_signature |-> has_signature, confidence |-> confidence]
Raised(exc) == [raised |-> TRUE, exc |-> exc]

\* Image.crop(box) followed by convert("L") and getdata(): the pixels of
\* the box <<left, upper, right, lower>>.  A box whose right edge is left
\* of its left edge (or lower above upper) makes newer Pillow releases
\* raise ValueError and older ones return an empty image; `strict` tells
\* which Pillow is installed.
BoxInverted(box) == box[3] < box[1] \/ box[4] < box[2]
BoxPixels(box) ==
    IF BoxInverted(box) THEN {}
    ELSE (box[1]..(box[3] - 1)) \X (box[2]..(box[4] - 1))
CropRaises(box, strict) == strict /\ BoxInverted(box)

\* sum(1 for p in pixels if p < dark_threshold)
DarkPixels(img, box, dark_threshold) ==
    Cardinality({p \in BoxPixels(box) : Lum(img, p[1], p[2]) < dark_threshold})

RatioLT(x, y) == x[1] * y[2] < y[1] * x[2]
RatioLE(x, y) == x[1] * y[2] <= y[1] * x[2]

(***************************************************************************)
(* ticket_analyzer.py: TicketAnalyzer._detect_signature_universal          *)
(***************************************************************************)
LOCAL_SIG_LEFT == 10
LOCAL_DARK_THRESHOLD == 170

\* the box (sig_left, sig_top, sig_right, sig_bottom)
LocalSigBox(img) ==
    <<LOCAL_SIG_LEFT, IntPct(img.height, 82), IntPct(img.width, 45), IntPct(img.height, 94)>>

\* the decision with "ink_density <= 0.02" as its first test
LocalDecision_blank_inclusive(ink_density) ==
    IF RatioLE(ink_density, <<2, 100>>) THEN Returned(FALSE, 92)
    ELSE IF RatioLE(<<2, 100>>, ink_density) /\ RatioLE(ink_density, <<10, 100>>)
    THEN Returned(TRUE,
                  IF RatioLE(<<25, 1000>>, ink_density) /\ RatioLE(ink_density, <<7, 100>>)
                  THEN 88 ELSE 72)
    ELSE Returned(TRUE, 55)

\* the decision with the high-density confidence given in percent
LocalDecision_percent(ink_density) ==
    IF RatioLT(ink_density, <<2, 100>>) THEN Returned(FALSE, 92)
    ELSE IF RatioLE(<<2, 100>>, ink_density) /\ RatioLE(ink_density, <<10, 100>>)
    THEN Returned(TRUE,
                  IF RatioLE(<<25, 1000>>, ink_density) /\ RatioLE(ink_density, <<7, 100>>)
                  THEN 88 ELSE 72)
    ELSE Returned(TRUE, 5500)

\* the decision on ink_density (lines 231-240)
LocalDecision(ink_density) ==
    IF RatioLT(ink_density, <<2, 100>>) THEN Returned(FALSE, 92)
    ELSE IF RatioLE(<<2, 100>>, ink_density) /\ RatioLE(ink_density, <<10, 100>>)
    THEN Returned(TRUE,
                  IF RatioLE(<<25, 1000>>, ink_density) /\ RatioLE(ink_density, <<7, 100>>)
                  THEN 88 ELSE 72)
    ELSE Returned(TRUE, 55)

detect_signature_universal(img, strict) ==
    IF ~img.decodable THEN Raised("UnidentifiedImageError")
    ELSE LET box == LocalSigBox(img)
         IN  IF box[4] <= box[2] THEN Returned(FALSE, 50)
             ELSE IF CropRaises(box, strict) THEN Raised("ValueError")
             ELSE LET total == Cardinality(BoxPixels(box))
                  IN  IF total = 0 THEN Returned(FALSE, 50)
                      ELSE LocalDecision(<<DarkPixels(img, box, LOCAL_DARK_THRESHOLD), total>>)

(***************************************************************************)
(* vision_analyzer.py: VisionAnalyzer._detect_signature and                *)
(* _check_handwriting_in_region.  An OCR response is                       *)
(*   [kind |-> "raise"]            the client call raised                  *)
(*   [kind |-> "error", ...]       response.error.message is set           *)
(*   [kind |-> "ok", text, pages]  full_text_annotation: the text and the  *)
(*                                 pages, each a sequence of blocks        *)
(* A block is [confidence, words], the confidence in hundredths and the    *)
(* words of its paragraphs; a word is [text, vertices], the vertices being *)
(* <<x, y>> of the first corner of its bounding box, or <<>>.              *)
(***************************************************************************)
\* the blocks of all pages, in order
RECURSIVE Concat(_)
Concat(seqs) == IF seqs = <<>> THEN <<>> ELSE Head(seqs) \o Concat(Tail(seqs))
Blocks(response) == Concat(response.pages)

VISION_DARK_THRESHOLD == 180
HANDWRITING_CONFIDENCE == 80

\* the crop box of region, clipped to the image (lines 146-159)
VisionSigBox(img, region) ==
    LET Max(a, b) == IF a >= b THEN a ELSE b
        Mn(a, b) == IF a <= b THEN a ELSE b
    IN  <<Max(0, region.left), Max(0, region.top),
          Mn(img.width, region.left + region.width),
          Mn(img.height, region.top + region.height)>>

\* the handwriting check with "block.confidence <= 0.8"
check_handwriting_in_region_inclusive(img, box, strict, response) ==
    IF ~img.decodable THEN Raised("UnidentifiedImageError")
    ELSE IF CropRaises(box, strict) THEN Raised("ValueError")
    ELSE IF response.kind = "raise" THEN Raised("GoogleAPICallError")
    ELSE IF \E b \in 1..Len(Blocks(response)) :
                Blocks(response)[b].confidence <= HANDWRITING_CONFIDENCE
    THEN Returned(TRUE, 75)
    ELSE Returned(FALSE, 50)

check_handwriting_in_region(img, box, strict, response) ==
    IF ~img.decodable THEN Raised("UnidentifiedImageError")
    ELSE IF CropRaises(box, strict) THEN Raised("ValueError")
    ELSE IF response.kind = "raise" THEN Raised("GoogleAPICallError")
    ELSE IF \E b \in 1..Len(Blocks(response)) :
                Blocks(response)[b].confidence < HANDWRITING_CONFIDENCE
    THEN Returned(TRUE, 75)
    ELSE Returned(FALSE, 50)

vision_detect_signature(img, region, strict, response) ==
    IF ~img.decodable THEN Raised("UnidentifiedImageError")
    ELSE LET box == VisionSigBox(img, region)
         IN  IF CropRaises(box, strict) THEN Raised("ValueError")
             ELSE LET total_pixels == Cardinality(BoxPixels(box))
                      ink_density == <<DarkPixels(img, box, VISION_DARK_THRESHOLD), total_pixels>>
                  IN  IF total_pixels = 0 THEN Returned(FALSE, 0)
                      ELSE IF RatioLE(<<1, 100>>, ink_density) /\ RatioLE(ink_density, <<20, 100>>)
                      THEN Returned(TRUE,
                                    IF RatioLE(<<3, 100>>, ink_density)
                                       /\ RatioLE(ink_density, <<10, 100>>)
                                    THEN 90 ELSE 70)
                      ELSE IF RatioLT(ink_density, <<1, 100>>) THEN Returned(FALSE, 90)
                      ELSE check_handwriting_in_region(img, box, strict, response)

\* whether _detect_signature reaches the OCR call of the handwriting check
VisionUsesOcr(img, region, strict) ==
    /\ img.decodable
    /\ LET box == VisionSigBox(img, region)
           total_pixels == Cardinality(BoxPixels(box))
       IN  /\ ~CropRaises(box, strict)
           /\ total_pixels > 0
           /\ RatioGT(<<DarkPixels(img, box, VISION_DARK_THRESHOLD), total_pixels>>, <<20, 100>>)

(***************************************************************************)
(* vision_analyzer.py: VisionAnalyzer._extract_technician_name,            *)
(* _calculate_confidence and analyze.                                      *)
(***************************************************************************)
\* \s*[:\-]?\s*([A-Z][a-z]+(?:\s+[A-Z][a-z]+)+), compiled with re.IGNORECASE
NameTail ==
    <<Rep(SPACE, 0, INF), Rep({":", "-"}, 0, 1), Rep(SPACE, 0, INF),
      Open(1), One(ALPHA), Rep(ALPHA, 1, INF),
      Rep(SPACE, 1, INF), One(ALPHA), Rep(ALPHA, 1, INF),
      Star(<<Rep(SPACE, 1, INF), One(ALPHA), Rep(ALPHA, 1, INF)>>),
      Close(1)>>

W_TECHNICIAN == <<"T", "e", "c", "h", "n", "i", "c", "i", "a", "n">>
W_TECH == <<"T", "e", "c", "h">>
W_SERVICE == <<"S", "e", "r", "v", "i", "c", "e">>
W_PERFORMED == <<"P", "e", "r", "f", "o", "r", "m", "e", "d">>
W_SERVICED == <<"S", "e", "r", "v", "i", "c", "e", "d">>
W_BY == <<"b", "y">>
W_NAME == <<"N", "a", "m", "e">>

\* (?:Technician|Tech|Service\s*by|Performed\s*by|Serviced\s*by) ...
name_pattern1 ==
    <<Alt(<<LitI(W_TECHNICIAN),
            LitI(W_TECH),
            LitI(W_SERVICE) \o <<Rep(SPACE, 0, INF)>> \o LitI(W_BY),
            LitI(W_PERFORMED) \o <<Rep(SPACE, 0, INF)>> \o LitI(W_BY),
            LitI(W_SERVICED) \o <<Rep(SPACE, 0, INF)>> \o LitI(W_BY)>>)>>
    \o NameTail

\* (?:Tech\s*Name|Technician\s*Name) ...
name_pattern2 ==
    <<Alt(<<LitI(W_TECH) \o <<Rep(SPACE, 0, INF)>> \o LitI(W_NAME),
            LitI(W_TECHNICIAN) \o <<Rep(SPACE, 0, INF)>> \o LitI(W_NAME)>>)>>
    \o NameTail

\* str.split(): the maximal runs of non-whitespace characters
RECURSIVE split(_)
split(text) ==
    LET t == lstrip(text)
        n == RunLength(t, Range(CODE_ORDER) \ SPACE, 0, INF)
    IN  IF t = <<>> THEN <<>>
        ELSE <<SubSeq(t, 1, n)>> \o split(SubSeq(t, n + 1, Len(t)))

\* " ".join(words)
RECURSIVE join(_)
join(words) ==
    IF words = <<>> THEN <<>>
    ELSE IF Len(words) = 1 THEN words[1]
    ELSE words[1] \o <<" ">> \o join(Tail(words))

\* the words of all blocks of all pages, in order
Words(response) ==
    Concat([b \in 1..Len(Blocks(response)) |-> Blocks(response)[b].words])

\* a return value, for the operations that can raise
Value(v) == [raised |-> FALSE, value |-> v]

\* _extract_technician_name(response, image_content) with
\* self.tech_region = region
extract_technician_name(response, img, region) ==
    LET full_text == response.text
        m1 == search(name_pattern1, full_text)
        m2 == search(name_pattern2, full_text)
        InRegion(word) ==
            /\ word.vertices # <<>>
            /\ region.left <= word.vertices[1]
            /\ word.vertices[1] <= region.left + region.width
            /\ region.top <= word.vertices[2]
            /\ word.vertices[2] <= region.top + region.height
        in_region == SelectSeq(Words(response), InRegion)
        names_in_region == [i \in 1..Len(in_region) |-> in_region[i].text]
        Capital(w) == IsUpper(w[1])
        name_parts == SelectSeq(split(join(names_in_region)), Capital)
    IN  IF m1.ok THEN Value(strip(group(full_text, m1, 1)))
        ELSE IF m2.ok THEN Value(strip(group(full_text, m2, 1)))
        ELSE IF response.pages = <<>> THEN Value(NoneVal)
        ELSE IF ~img.decodable THEN Raised("UnidentifiedImageError")
        ELSE IF names_in_region # <<>> /\ Len(name_parts) >= 2
        THEN Value(join(SubSeq(name_parts, 1, IF Len(name_parts) < 3 THEN Len(name_parts) ELSE 3)))
        ELSE Value(NoneVal)

\* _calculate_confidence(response): the mean block confidence as a ratio
RECURSIVE SumConfidence(_)
SumConfidence(blocks) ==
    IF blocks = <<>> THEN 0 ELSE Head(blocks).confidence + SumConfidence(Tail(blocks))
calculate_confidence(response) ==
    IF Blocks(response) = <<>> THEN <<0, 1>>
    ELSE <<SumConfidence(Blocks(response)), Len(Blocks(response))>>

\* VisionAnalyzer.analyze(image): `response` answers the OCR call on the
\* full image, `region_response` the one of the handwriting check
vision_analyze(img, tech_region, sig_region, strict, response, region_response) ==
    IF img.empty THEN Raised("ValueError")
    ELSE IF response.kind = "raise" THEN Raised("GoogleAPICallError")
    ELSE IF response.kind = "error" THEN Raised("RuntimeError")
    ELSE LET tech_name == extract_technician_name(response, img, tech_region)
             sig == vision_detect_signature(img, sig_region, strict, region_response)
         IN  IF tech_name.raised THEN tech_name
             ELSE IF sig.raised THEN sig
             ELSE [raised |-> FALSE,
                   result |-> [technician_name |-> tech_name.value,
                               has_signature |-> sig.has_signature,
                               confidence |-> calculate_confidence(response),
                               raw_text |-> response.text,
                               signature_confidence |-> sig.confidence]]

(***************************************************************************)
(* ticket_analyzer.py: TicketAnalyzer._analyze_with_vision and             *)
(* _analyze_local.                                                         *)
(***************************************************************************)
TicketAnalysis_legal_unset(name, role, has_signature, confidence, number, date, legal) ==
    [technician_name |-> name, technician_role |-> role,
     has_signature |-> has_signature, signature_confidence |-> confidence,
     ticket_number |-> number, ticket_date |-> date, has_legal_text |-> FALSE]
TicketAnalysis(name, role, has_signature, confidence, number, date, legal) ==
    [technician_name |-> name, technician_role |-> role,
     has_signature |-> has_signature, signature_confidence |-> confidence,
     ticket_number |-> number, ticket_date |-> date, has_legal_text |-> legal]

\* _analyze_with_vision(image_bytes).  Line 85 calls self._detect_signature,
\* a method TicketAnalyzer does not define, so every call whose OCR
\* response carries no error ends in AttributeError.
analyze_with_vision(img, response) ==
    IF response.kind = "raise" THEN Raised("GoogleAPICallError")
    ELSE IF response.kind = "error" THEN Raised("RuntimeError")
    ELSE LET full_text == response.text
             tech == extract_technician(full_text)
             ticket_num == extract_ticket_number(full_text)
             ticket_date == extract_date(full_text)
             has_legal == Contains(full_text, LEGAL_TEXT)
         IN  Raised("AttributeError")

\* the box of header_region (line 122)
HeaderBox(img) == <<IntPct(img.width, 60), 60, img.width - 10, 120>>

\* whether _analyze_local reaches the OCR call on the header region
LocalUsesHeaderOcr(img, strict) == img.decodable /\ ~CropRaises(HeaderBox(img), strict)

\* _analyze_local(image_bytes): `tech_ocr` and `header_ocr` answer the two
\* pytesseract.image_to_string calls, [kind |-> "raise"] or
\* [kind |-> "ok", text |-> ...]
analyze_local_first_failure_ends(img, strict, tech_ocr, header_ocr) ==
    IF ~img.decodable THEN Raised("UnidentifiedImageError")
    ELSE LET extracted == extract_technician(tech_ocr.text)
             sig == detect_signature_universal(img, strict)
         IN  IF sig.raised THEN sig
             ELSE IF tech_ocr.kind = "raise"
             THEN [raised |-> FALSE,
                   result |-> TicketAnalysis(NoneVal, NoneVal, FALSE, 50, NoneVal, NoneVal, TRUE)]
             ELSE IF ~LocalUsesHeaderOcr(img, strict) \/ header_ocr.kind = "raise"
             THEN [raised |-> FALSE,
                   result |-> TicketAnalysis(NoneVal, NoneVal, sig.has_signature,
                                             sig.confidence, NoneVal, NoneVal, TRUE)]
             ELSE [raised |-> FALSE,
                   result |-> TicketAnalysis(normalize_tech_name(extracted[1]), extracted[2],
                                             sig.has_signature, sig.confidence,
                                             extract_ticket_number(header_ocr.text),
                                             extract_date(header_ocr.text), TRUE)]

\* _analyze_local giving up the role with a name that is not recognised
analyze_local_role_follows_name(img, strict, tech_ocr, header_ocr) ==
    IF ~img.decodable THEN Raised("UnidentifiedImageError")
    ELSE LET extracted == extract_technician(tech_ocr.text)
             tech == IF tech_ocr.kind = "raise" THEN <<NoneVal, NoneVal>>
                     ELSE IF normalize_tech_name(extracted[1]) = NoneVal
                     THEN <<NoneVal, NoneVal>>
                     ELSE <<normalize_tech_name(extracted[1]), extracted[2]>>
             header == IF ~LocalUsesHeaderOcr(img, strict) \/ header_ocr.kind = "raise"
                       THEN <<NoneVal, NoneVal>>
                       ELSE <<extract_ticket_number(header_ocr.text),
                              extract_date(header_ocr.text)>>
             sig == detect_signature_universal(img, strict)
         IN  IF sig.raised THEN sig
             ELSE [raised |-> FALSE,
                   result |-> TicketAnalysis(tech[1], tech[2], sig.has_signature,
                                             sig.confidence, header[1], header[2], TRUE)]

analyze_local(img, strict, tech_ocr, header_ocr) ==
    IF ~img.decodable THEN Raised("UnidentifiedImageError")
    ELSE LET extracted == extract_technician(tech_ocr.text)
             tech == IF tech_ocr.kind = "raise" THEN <<NoneVal, NoneVal>>
                     ELSE <<normalize_tech_name(extracted[1]), extracted[2]>>
             header == IF ~LocalUsesHeaderOcr(img, strict) \/ header_ocr.kind = "raise"
                       THEN <<NoneVal, NoneVal>>
                       ELSE <<extract_ticket_number(header_ocr.text),
                              extract_date(header_ocr.text)>>
             sig == detect_signature_universal(img, strict)
         IN  IF sig.raised THEN sig
             ELSE [raised |-> FALSE,
                   result |-> TicketAnalysis(tech[1], tech[2], sig.has_signature,
                                             sig.confidence, header[1], header[2], TRUE)]

(***************************************************************************)
(* Inputs.                                                                 *)
(***************************************************************************)
\* the most names registered on top of the initial registry
MaxRegistered == 2

\* names offered to add_known_tech: a new technician, a name that is also
\* a correction key, a name that ties two registered ones, a name entered
\* with trailing blanks, a long name, and the empty string
RegNames == {
    <<"Z", "e", "d", " ", "Q">>,
    <<"K", "o", "b", "y", " ", "A">>,
    <<"D", "a", "r", "r", "i", "n", " ", "B">>,
    <<"K", "o", "b", "y", " ", "A", "x", " ", " ", " ">>,
    <<"A", "l", "e", "x", "a", "n", "d", "e", "r", " ", "H", "a", "m", "i", "l", "t", "o", "n", " ", "J">>,
    <<"K", "o", "b", "y", " ", "H">>,
    <<>> }

\* raw names given to normalize_tech_name besides the table keys, the
\* registry and RegNames
RawNames == {
    NoneVal,
    <<>>,
    <<" ", " ", " ">>,
    <<" ", "K", "o", "b", "y", " ", "H", " ">>,
    <<" ", "K", "o", "b", "y", " ", "A">>,
    <<"K", "o", "b", "y", " ", "G">>,
    <<"k", "o", "b", "y", " ", "h">>,
    <<"A", "n", "t", "h", "o", "n", "y">>,
    <<"M", "i", "k", "e">>,
    <<"K", "y">>,
    <<"C", "h", "r", "i", "s", " ", "F">>,
    <<"H", "m", "s", "f", "e", "c", " ", "I">>,
    <<"A", "n", "t", "h", "g", "p", "y", "b", "p", "t", "e", "c", " ", "G">>,
    <<"A", "l", "e", "x", "a", "n", "d", "e", "r", " ", "H", "a", "m", "q", "q", "q", "q", "q", "q", "q">> }

\* correction keys and canonical names given to normalize_tech_name
SampleKeys == {
    <<"K", "o", "b", "y", " ", "A">>,
    <<"C", "h", "u", "g", "k", " ", "B">>,
    <<"D", "a", "r", "r", "e", "n", " ", "D">> }
SampleTechs == {
    <<"K", "o", "b", "y", " ", "H">>,
    <<"C", "h", "u", "c", "k", " ", "D">>,
    <<"K", "y", " ", "S">> }

NormalizeInputs == RawNames \cup RegNames \cup SampleKeys \cup SampleTechs

\* the most ink pixels of a stroke
MaxInk == 42

\* a decoded image of the given size with a stroke of ink pixels
Page(width, height, ink, lum) ==
    [decodable |-> TRUE, empty |-> FALSE, width |-> width, height |-> height,
     stroke |-> [x |-> 10, y |-> 68, w |-> 20], ink |-> ink, lum |-> lum,
     paper |-> 255]

\* bytes PIL cannot decode: b"" and corrupt bytes
NoImage(empty) ==
    [decodable |-> FALSE, empty |-> empty, width |-> 0, height |-> 0,
     stroke |-> [x |-> 0, y |-> 0, w |-> 1], ink |-> 0, lum |-> 255,
     paper |-> 255]
EmptyBytes == NoImage(TRUE)
CorruptBytes == NoImage(FALSE)

\* page sizes: 67 x 84 gives the local detector a region of 20 x 10
\* pixels; 67 x 5 makes sig_bottom = sig_top; 23 x 84 makes the region 0
\* pixels wide; 20 x 84 puts sig_right left of sig_left
PageSizes == {<<67, 84>>, <<67, 5>>, <<23, 84>>, <<20, 84>>}

\* ink luminances: dark for both detectors, and dark for the 180
\* threshold only
InkLums == {60, 175}

Images ==
    {EmptyBytes, CorruptBytes}
    \cup {Page(67, 84, ink, lum) : ink \in 0..MaxInk, lum \in InkLums}
    \cup {Page(sz[1], sz[2], 12, 60) : sz \in PageSizes}

\* settings.signature_region: the default of config.py, a region over the
\* stroke, a region starting at the bottom edge of the page, and a region
\* starting right of the page
DEFAULT_SIGNATURE_REGION == [top |-> 800, left |-> 0, width |-> 600, height |-> 200]
SigRegions == {
    DEFAULT_SIGNATURE_REGION,
    [top |-> 68, left |-> 10, width |-> 20, height |-> 10],
    [top |-> 84, left |-> 10, width |-> 20, height |-> 10],
    [top |-> 68, left |-> 70, width |-> 20, height |-> 10] }

\* an OCR response without error whose single page has blocks of the
\* given confidences
Block(confidence, words) == [confidence |-> confidence, words |-> words]
Word(text, x, y) == [text |-> text, vertices |-> <<x, y>>]
OkResponse(text, blocks) ==
    [kind |-> "ok", text |-> text, pages |-> IF blocks = <<>> THEN <<>> ELSE <<blocks>>]
RaiseResponse == [kind |-> "raise"]
ErrorResponse == [kind |-> "error", text |-> <<>>, pages |-> <<>>]

\* OCR responses for the cropped signature region
RegionResponses == {
    RaiseResponse,
    ErrorResponse,
    OkResponse(<<>>, <<>>),
    OkResponse(<<>>, <<Block(95, <<>>)>>),
    OkResponse(<<>>, <<Block(80, <<>>)>>),
    OkResponse(<<>>, <<Block(79, <<>>)>>),
    OkResponse(<<>>, <<Block(95, <<>>), Block(60, <<>>)>>) }

\* the response that stands for "no OCR call was made"
NoResponse == [kind |-> "unused"]

\* what pytesseract.image_to_string answers
OcrText(text) == [kind |-> "ok", text |-> text]

T_JOHN == <<"b", "y", " ", "J", "o", "h", "n", " ", "D", " ", "T", "e", "c", "h", "n", "i", "c", "i", "a", "n">>
T_KOBY_A == <<"b", "y", " ", "K", "o", "b", "y", " ", "A", " ", "T", "e", "c", "h">>
T_KOBY_LD == <<"b", "y", " ", "K", "o", "b", "y", " ", "H", " ", "L", "d", " ", "T", "e", "c", "h", "n", "i", "c", "i", "a", "n">>
T_UNKNOWN == <<"b", "y", " ", "X", "q", "z", "w", " ", "V", " ", "H", "e", "l", "p", "e", "r">>
T_DARRIN == <<"b", "y", " ", "D", "a", "r", "r", "i", "n", " ", "B">>
T_NO_NAME == <<"C", "u", "s", "t", "o", "m", "e", "r", " ", "c", "o", "p", "y">>
T_HEADER == <<"#", "1", "2", "3", "4", "5", "6", " ", "1", "/", "1", "5", "/", "2", "6">>
T_SHORT_HEADER == <<"#", "1", "2">>

\* answers for the technician-name region and for the header region
TechOcrs == {RaiseResponse, OcrText(T_JOHN), OcrText(T_KOBY_A), OcrText(T_KOBY_LD),
             OcrText(T_UNKNOWN), OcrText(T_DARRIN), OcrText(T_NO_NAME)}
HeaderOcrs == {RaiseResponse, OcrText(T_HEADER), OcrText(T_SHORT_HEADER)}

\* images given to the analyzers: no image, a signed page, a blank page, a
\* page dense with ink, a page too narrow and a page too low for the
\* signature region of the local detector
SignedPage == Page(67, 84, 12, 60)
AnalysisImages ==
    {EmptyBytes, CorruptBytes, SignedPage, Page(67, 84, 0, 60), Page(67, 84, 42, 60),
     Page(20, 84, 12, 60), Page(67, 5, 12, 60)}

\* the inputs of one local analysis: every technician text and every
\* header text on the signed page, and every image with an OCR that
\* answers and with an OCR that raises
LocalCases ==
    ({SignedPage} \X TechOcrs \X {OcrText(T_HEADER)})
    \cup ({SignedPage} \X {OcrText(T_KOBY_A)} \X HeaderOcrs)
    \cup (AnalysisImages \X {OcrText(T_KOBY_A), RaiseResponse}
                         \X {OcrText(T_HEADER), RaiseResponse})

\* settings.tech_name_region, the default of config.py
DEFAULT_TECH_NAME_REGION == [top |-> 0, left |-> 0, width |-> 500, height |-> 100]

T_TECHNICIAN_JOHN == <<"T", "e", "c", "h", "n", "i", "c", "i", "a", "n", ":", " ", "J", "o", "h", "n", " ", "S", "m", "i", "t", "h">>
T_BY_KOBY_LEGAL == <<"b", "y", " ", "K", "o", "b", "y", " ", "H", " ", "T", "e", "c", "h", "\n", "I", " ", "h", "a", "v", "e", " ", "r", "e", "v", "i", "e", "w", "e", "d", " ", "t", "h", "i", "s", " ", "f", "o", "r", "m">>
T_TECH_KOBY == <<"T", "e", "c", "h", ":", " ", "K", "o", "b", "y", " ", "H">>

\* answers of the OCR service for a full page
PageResponses == {
    RaiseResponse,
    ErrorResponse,
    OkResponse(<<>>, <<>>),
    OkResponse(T_TECHNICIAN_JOHN,
               <<Block(95, <<Word(<<"T", "e", "c", "h", "n", "i", "c", "i", "a", "n", ":">>, 5, 10), Word(<<"J", "o", "h", "n">>, 60, 10),
                             Word(<<"S", "m", "i", "t", "h">>, 90, 10)>>)>>),
    OkResponse(T_BY_KOBY_LEGAL,
               <<Block(90, <<Word(<<"b", "y">>, 5, 10), Word(<<"K", "o", "b", "y">>, 20, 10), Word(<<"H">>, 45, 10),
                             Word(<<"T", "e", "c", "h">>, 55, 10)>>),
                 Block(70, <<Word(<<"I">>, 5, 700), Word(<<"h", "a", "v", "e">>, 15, 700)>>)>>),
    OkResponse(T_TECH_KOBY,
               <<Block(85, <<Word(<<"T", "e", "c", "h", ":">>, 5, 700), Word(<<"K", "o", "b", "y">>, 40, 700),
                             Word(<<"H">>, 70, 700)>>)>>) }

\* signature regions given to VisionAnalyzer in an analysis
AnalysisSigRegions ==
    {DEFAULT_SIGNATURE_REGION, [top |-> 68, left |-> 10, width |-> 20, height |-> 10]}

\* texts of the form "by <FirstName> <LastInitial> [Ld] <Role>", given by
\* their parts; ld is empty when the text has no "Ld" token
FormFirsts == {<<"J", "o", "h", "n">>, <<"k", "o", "b", "y">>, <<"m", "c", "D", "o", "n", "a", "l", "d">>, <<"J">>}
FormInitials == {<<"D">>, <<"h">>}
FormLds == {<<>>, <<"L", "d">>, <<"l", "d">>}
FormRoles == {<<"T", "e", "c", "h", "n", "i", "c", "i", "a", "n">>, <<"h", "e", "l", "p", "e", "r">>, <<"L", "E", "A", "D">>, <<"L", "d">>, <<"T">>}
TechForms ==
    {[first |-> f, initial |-> i, ld |-> l, role |-> r] :
        f \in FormFirsts, i \in FormInitials, l \in FormLds, r \in FormRoles}
FormText(form) ==
    <<"b", "y", " ">> \o form.first \o <<" ">> \o form.initial \o <<" ">>
    \o (IF form.ld = <<>> THEN <<>> ELSE form.ld \o <<" ">>) \o form.role
NoForm == [first |-> NoneVal]

\* other texts of the technician region
TechTexts == {
    <<>>,
    <<"C", "u", "s", "t", "o", "m", "e", "r", " ", "c", "o", "p", "y">>,
    <<"b", "y", " ", "J", "o", "h", "n">>,
    <<"b", "y", " ", "J", "o", "h", "n", " ", "D">>,
    <<"b", "y", " ", "J", "o", "h", "n", " ", "D", "T", "e", "c", "h", "n", "i", "c", "i", "a", "n">>,
    <<"b", "y", " ", "J", "o", "h", "n", " ", "D", "T", "e", "c", "h", " ", "b", "y", " ", "K", "o", "b", "y", " ", "H", " ", "T", "e", "c", "h">>,
    <<"S", "e", "r", "v", "i", "c", "e", "d", " ", "B", "Y", " ", "k", "o", "b", "y", " ", "h", " ", "t", "e", "c", "h">>,
    <<"b", "y", " ", " ", "J", "o", "h", "n", " ", "\t", " ", "D", "\n", "T", "e", "c", "h">>,
    <<"b", "y", " ", "J", "o", "h", "n", " ", "D", ".", " ", "T", "e", "c", "h", "n", "i", "c", "i", "a", "n">>,
    <<"b", "y", "|", " ", "J", "o", "h", "n", " ", "D", " ", "T", "e", "c", "h">>,
    <<"b", "y", " ", "J", "o", "/", "h", "n", " ", "|", "\\", " ", "T", "e", "c", "h">>,
    <<"s", "t", "a", "n", "d", "b", "y", " ", "J", "o", "e", " ", "K">>,
    <<"b", "y", " ", "J", "o", "h", "n", "_", "D", " ", "T", "e", "c", "h">>,
    <<"b", "y", " ", "J", "o", "h", "n", " ", "D", "_", "T", "e", "c", "h">> }

\* texts of the header region
HeaderTexts == {
    <<>>,
    <<"#", "1", "2", "3", "4", "5", "6", " ", "1", "/", "1", "5", "/", "2", "6">>,
    <<"#", "1", "2">>,
    <<"#", "1", "2", "3", "4">>,
    <<"#", "1", "2", "3", "4", "5">>,
    <<"#", "1", "2", "3", "4", "5", "6", "7">>,
    <<"#", "1", "2", "3", "4", "5", "6", "7", "8">>,
    <<"#", "1", "2", " ", "#", "1", "2", "3", "4", "5", "6">>,
    <<"N", "o", " ", "1", "2", "3", "4", "5", "6">>,
    <<"#", " ", "1", "2", "3", "4", "5", "6">>,
    <<"a", "#", "1", "2", "3", "4", "5", "b", "#", "7", "6", "5", "4", "3", "2", "1">>,
    <<"#", "1", "2", "3", "4", "x", "5">>,
    <<"1", "/", "1", "5", "/", "2", "0", "2", "6">>,
    <<"1", "2", "3", "/", "4", "/", "5", "6">>,
    <<"1", "3", "/", "4", "5", "/", "9", "9">>,
    <<"1", "/", "5", "/", "2">>,
    <<"1", "/", "/", "1", "5", "/", "2", "6">>,
    <<"0", "1", "/", "1", "5", "/", "2", "6", " ", "2", "/", "3", "/", "4", "5">>,
    <<"1", "/", "2", "/", "3", "/", "4", "5", "/", "6", "7">>,
    <<"1", "2", "-", "0", "1", "-", "2", "6">>,
    <<"D", "a", "t", "e", " ", "7", "/", "0", "4", "/", "2", "5", ".">> }

(***************************************************************************)
(* State machine.                                                          *)
(***************************************************************************)
\* the threads of the process that call add_known_tech, and a thread that
\* has not called yet
MaxThreads == 2
Threads == 1..MaxThreads
NotCalled == [pc |-> "not called"]

\* audit.db before the first run, and the "Audit Log" sheet with its
\* header row only (rows holds the rows below the header)
EmptyDatabase == [kind |-> "db", rows |-> <<>>]
EmptySheet == [kind |-> "sheet", rows |-> <<>>]

Init ==
    /\ KNOWN_TECHS = INITIAL_KNOWN_TECHS
    /\ OCR_CORRECTIONS = INITIAL_OCR_CORRECTIONS
    /\ last = [op |-> "idle"]
    /\ batch = [pc |-> "idle"]
    /\ sink = EmptyDatabase
    /\ now = 0
    /\ threads = [t \in Threads |-> NotCalled]

Idle == last.op = "idle" /\ batch.pc = "idle"

\* the caller takes the outcome of the last call and goes on
Return ==
    /\ last.op # "idle"
    /\ last' = [op |-> "idle"]
    /\ UNCHANGED <<KNOWN_TECHS, OCR_CORRECTIONS, batch, sink, now, threads>>

\* a call add_known_tech(name)
Register ==
    \E name \in RegNames :
        /\ Idle
        /\ Len(KNOWN_TECHS) < Len(INITIAL_KNOWN_TECHS) + MaxRegistered
        /\ KNOWN_TECHS' = add_known_tech(KNOWN_TECHS, name)
        /\ last' = [op |-> "add_known_tech", name |-> name]
        /\ UNCHANGED <<OCR_CORRECTIONS, batch, sink, now, threads>>

\* a call normalize_tech_name(name)
Normalize ==
    \E name \in NormalizeInputs :
        /\ Idle
        /\ last' = [op |-> "normalize_tech_name", name |-> name,
                    ret |-> normalize_tech_name(name)]
        /\ UNCHANGED <<KNOWN_TECHS, OCR_CORRECTIONS, batch, sink, now, threads>>

NextNames == Register \/ Normalize \/ Return

SpecNames == Init /\ [][NextNames]_vars

\* a call TicketAnalyzer._detect_signature_universal(image_bytes)
DetectLocal ==
    \E img \in Images, strict \in BOOLEAN :
        /\ Idle
        /\ last' = [op |-> "_detect_signature_universal", img |-> img, strict |-> strict,
                    out |-> detect_signature_universal(img, strict)]
        /\ UNCHANGED <<KNOWN_TECHS, OCR_CORRECTIONS, batch, sink, now, threads>>

\* a call VisionAnalyzer._detect_signature(image_content) with
\* self.sig_region = region; the OCR response is recorded when the call
\* reaches the handwriting check
DetectVision ==
    \E img \in Images, region \in SigRegions, strict \in BOOLEAN, response \in RegionResponses :
        /\ Idle
        /\ last' = [op |-> "_detect_signature", img |-> img, region |-> region,
                    strict |-> strict,
                    response |-> IF VisionUsesOcr(img, region, strict) THEN response
                                 ELSE NoResponse,
                    out |-> vision_detect_signature(img, region, strict, response)]
        /\ UNCHANGED <<KNOWN_TECHS, OCR_CORRECTIONS, batch, sink, now, threads>>

NextSig == DetectLocal \/ DetectVision \/ Return

SpecSig == Init /\ [][NextSig]_vars

\* a call TicketAnalyzer(use_vision_api=False).analyze(path, image_bytes)
\* a local analysis that registers the name it read on the ticket
AnalyzeLocal_registers_name ==
    \E c \in LocalCases, strict \in BOOLEAN :
        /\ Idle
        /\ last' = [op |-> "_analyze_local", img |-> c[1], strict |-> strict,
                    tech_ocr |-> IF c[1].decodable THEN c[2] ELSE NoResponse,
                    header_ocr |-> IF LocalUsesHeaderOcr(c[1], strict) THEN c[3]
                                   ELSE NoResponse,
                    out |-> analyze_local(c[1], strict, c[2], c[3])]
        /\ KNOWN_TECHS' =
               IF c[1].decodable /\ c[2].kind = "ok"
                  /\ extract_technician(c[2].text)[1] # NoneVal
               THEN add_known_tech(KNOWN_TECHS, extract_technician(c[2].text)[1])
               ELSE KNOWN_TECHS
        /\ UNCHANGED <<OCR_CORRECTIONS, batch, sink, now, threads>>

AnalyzeLocal ==
    \E c \in LocalCases, strict \in BOOLEAN :
        /\ Idle
        /\ last' = [op |-> "_analyze_local", img |-> c[1], strict |-> strict,
                    tech_ocr |-> IF c[1].decodable THEN c[2] ELSE NoResponse,
                    header_ocr |-> IF LocalUsesHeaderOcr(c[1], strict) THEN c[3]
                                   ELSE NoResponse,
                    out |-> analyze_local(c[1], strict, c[2], c[3])]
        /\ UNCHANGED <<KNOWN_TECHS, OCR_CORRECTIONS, batch, sink, now, threads>>

\* a call TicketAnalyzer(use_vision_api=True).analyze(path, image_bytes)
AnalyzeWithVision ==
    \E img \in AnalysisImages, response \in PageResponses :
        /\ Idle
        /\ last' = [op |-> "_analyze_with_vision", img |-> img, response |-> response,
                    out |-> analyze_with_vision(img, response)]
        /\ UNCHANGED <<KNOWN_TECHS, OCR_CORRECTIONS, batch, sink, now, threads>>

\* whether VisionAnalyzer.analyze reaches the OCR call of the handwriting
\* check
AnalyzeUsesRegionOcr(img, tech_region, sig_region, strict, response) ==
    /\ ~img.empty
    /\ response.kind = "ok"
    /\ ~extract_technician_name(response, img, tech_region).raised
    /\ VisionUsesOcr(img, sig_region, strict)

\* a call VisionAnalyzer().analyze(image)
VisionAnalyze ==
    \E img \in AnalysisImages, sig_region \in AnalysisSigRegions, strict \in BOOLEAN,
       response \in PageResponses, region_response \in RegionResponses :
        /\ Idle
        /\ last' = [op |-> "VisionAnalyzer.analyze", img |-> img,
                    sig_region |-> sig_region, strict |-> strict,
                    response |-> IF img.empty THEN NoResponse ELSE response,
                    region_response |->
                        IF AnalyzeUsesRegionOcr(img, DEFAULT_TECH_NAME_REGION, sig_region,
                                                strict, response)
                        THEN region_response ELSE NoResponse,
                    out |-> vision_analyze(img, DEFAULT_TECH_NAME_REGION, sig_region,
                                           strict, response, region_response)]
        /\ UNCHANGED <<KNOWN_TECHS, OCR_CORRECTIONS, batch, sink, now, threads>>

\* the entry points: the two analyzers and the registration of a name
Next == Register \/ AnalyzeLocal \/ AnalyzeWithVision \/ VisionAnalyze \/ Return

Spec == Init /\ [][Next]_vars

\* registrations, lookups and TicketAnalyzer.analyze calls in any order
NextFrame == Register \/ Normalize \/ AnalyzeLocal \/ AnalyzeWithVision \/ Return

SpecFrame == Init /\ [][NextFrame]_vars

(***************************************************************************)
(* The extractors of TicketAnalyzer, called on their own.                  *)
(***************************************************************************)
\* a call _extract_technician(text) on a text of the form
ExtractTechnicianForm ==
    \E form \in TechForms :
        /\ Idle
        /\ last' = [op |-> "_extract_technician", form |-> form, text |-> FormText(form),
                    out |-> extract_technician(FormText(form))]
        /\ UNCHANGED <<KNOWN_TECHS, OCR_CORRECTIONS, batch, sink, now, threads>>

\* a call _extract_technician(text) on another text
ExtractTechnician ==
    \E text \in TechTexts :
        /\ Idle
        /\ last' = [op |-> "_extract_technician", form |-> NoForm, text |-> text,
                    out |-> extract_technician(text)]
        /\ UNCHANGED <<KNOWN_TECHS, OCR_CORRECTIONS, batch, sink, now, threads>>

\* a call _extract_ticket_number(text)
ExtractTicketNumber ==
    \E text \in HeaderTexts :
        /\ Idle
        /\ last' = [op |-> "_extract_ticket_number", text |-> text,
                    out |-> extract_ticket_number(text)]
        /\ UNCHANGED <<KNOWN_TECHS, OCR_CORRECTIONS, batch, sink, now, threads>>

\* a call _extract_date(text)
ExtractDate ==
    \E text \in HeaderTexts :
        /\ Idle
        /\ last' = [op |-> "_extract_date", text |-> text, out |-> extract_date(text)]
        /\ UNCHANGED <<KNOWN_TECHS, OCR_CORRECTIONS, batch, sink, now, threads>>

NextExtract ==
    ExtractTechnicianForm \/ ExtractTechnician \/ ExtractTicketNumber \/ ExtractDate \/ Return

SpecExtract == Init /\ [][NextExtract]_vars

(***************************************************************************)
(* The batch runs: analyze_tickets (analyze.py), which stores into         *)
(* audit.db, and AuditService.run_audit, which stores into the "Audit Log" *)
(* sheet.  A file is named by a number; the fields of a record that are    *)
(* read off the file name (ticket_number, variant, month_folder, filename) *)
(* go with that number.                                                    *)
(***************************************************************************)
MaxFiles == 2
MaxRuns == 2

Files == 1..MaxFiles

\* the bytes of a file: bytes that are no image, a signed page, a blank page
FileImage(f) ==
    CASE f % 3 = 1 -> CorruptBytes
      [] f % 3 = 2 -> SignedPage
      [] OTHER -> Page(67, 84, 0, 60)

\* sorted(folder_path.glob("*.png")) for the files S of the folder
RECURSIVE Ascending(_)
Ascending(S) ==
    IF S = {} THEN <<>>
    ELSE LET m == CHOOSE x \in S : \A y \in S : x <= y
         IN  <<m>> \o Ascending(S \ {m})

\* random.sample(images, k): every choice of k distinct entries in any order
Samples(images, k) ==
    {[j \in 1..k |-> images[p[j]]] :
        p \in {q \in [1..k -> 1..Len(images)] : \A a, b \in 1..k : a # b => q[a] # q[b]}}

\* AuditDatabase.get_processed_paths()
get_processed_paths(rows) == {rows[j].file_path : j \in 1..Len(rows)}

\* the tuple insert_record binds for a record: booleans become 1 and 0
DbRow(r) ==
    [file_path |-> r.file_path,
     technician_name |-> r.technician_name,
     technician_role |-> r.technician_role,
     has_signature |-> IF r.has_signature THEN 1 ELSE 0,
     signature_confidence |-> r.signature_confidence,
     ticket_date |-> r.ticket_date,
     audit_date |-> r.audit_date,
     has_legal_text |-> IF r.has_legal_text THEN 1 ELSE 0]

\* INSERT OR IGNORE: a row whose file_path is in the table stays
insert_record_keeps_old(rows, r) ==
    IF \E j \in 1..Len(rows) : rows[j].file_path = r.file_path THEN rows
    ELSE Append(rows, DbRow(r))

\* INSERT OR REPLACE on a table whose file_path is UNIQUE
insert_record(rows, r) ==
    LET Others(x) == x.file_path # r.file_path
    IN  Append(SelectSeq(rows, Others), DbRow(r))

\* AuditDatabase.insert_records(records)
RECURSIVE insert_records(_, _)
insert_records(rows, records) ==
    IF records = <<>> THEN rows
    ELSE insert_records(insert_record(rows, Head(records)), Tail(records))

\* what one pass of the loop of analyze_tickets meets: whether the file can
\* be read, the Pillow installed, and the answers of the OCR backends
TicketEnvs ==
    {[read |-> "raise", strict |-> FALSE, tech_ocr |-> NoResponse, response |-> NoResponse]}
    \cup {[read |-> "ok", strict |-> FALSE, tech_ocr |-> t, response |-> r] :
            t \in {OcrText(T_KOBY_A), RaiseResponse},
            r \in {ErrorResponse,
                   OkResponse(T_TECHNICIAN_JOHN, <<>>)}}

\* TicketAnalyzer.analyze(img.path)
analyze(f, use_vision_api, env) ==
    IF env.read = "raise" THEN Raised("OSError")
    ELSE IF use_vision_api THEN analyze_with_vision(FileImage(f), env.response)
    ELSE analyze_local(FileImage(f), env.strict, env.tech_ocr, OcrText(T_HEADER))

\* the AuditRecord built at analyze.py:82-95
TicketRecord(f, result, audit_date) ==
    [file_path |-> f,
     technician_name |-> result.technician_name,
     technician_role |-> result.technician_role,
     has_signature |-> result.has_signature,
     signature_confidence |-> result.signature_confidence,
     ticket_date |-> result.ticket_date,
     audit_date |-> audit_date,
     has_legal_text |-> result.has_legal_text]

\* the state of a run that has its list of images and enters the loop, or
\* returns at once when the list is empty
Started(op, params, images) ==
    [pc |-> IF images = <<>> THEN "done" ELSE "loop", op |-> op, params |-> params,
     images |-> images, i |-> 1, attempts |-> <<>>, records |-> <<>>, log |-> <<>>,
     written |-> <<>>, writes |-> 0]

\* the handler of both loops (analyze.py:98-99, audit_service.py:90-91):
\* print the error; the loop goes on with the next image
log_error_skips_rest(log, i, images, f, exc) ==
    [log |-> Append(log, [file |-> f, exc |-> exc]), i |-> Len(images) + 1]
log_error(log, i, images, f, exc) ==
    [log |-> Append(log, [file |-> f, exc |-> exc]), i |-> i + 1]

\* a pass of a loop, for the record: the file, whether its analysis gave a
\* result, whether the pass raised
Attempt(f, analysed, raised) == [file |-> f, analysed |-> analysed, raised |-> raised]

\* the images of the folder that are not in `processed` (analyze.py:57-61)
collect_images(folder, processed) ==
    LET NotProcessed(f) == f \notin processed
    IN  SelectSeq(Ascending(folder), NotProcessed)

\* the lists analyze.py:63-65 can leave of `images`; sample_size 0 stands
\* for None as well
sample(images, sample_size) ==
    IF sample_size # 0 /\ Len(images) > sample_size
    THEN Samples(images, sample_size) ELSE {images}

\* analyze_tickets(month, sample_size, use_vision_api, skip_processed) up to
\* the loop (analyze.py:40-71)
StartAnalyzeTickets ==
    \E folder \in SUBSET Files, sample_size \in 0..(MaxFiles - 1),
       use_vision_api \in BOOLEAN, skip_processed \in BOOLEAN :
        LET processed == IF skip_processed THEN get_processed_paths(sink.rows) ELSE {}
            params == [listed |-> folder, sample_size |-> sample_size,
                       use_vision_api |-> use_vision_api,
                       skip_processed |-> skip_processed, processed |-> processed]
        IN  /\ Idle
            /\ sink.kind = "db"
            /\ now < MaxRuns
            /\ now' = now + 1
            /\ \E chosen \in sample(collect_images(folder, processed), sample_size) :
                   batch' = Started("analyze_tickets", params, chosen)
            /\ UNCHANGED <<KNOWN_TECHS, OCR_CORRECTIONS, last, sink, threads>>

\* one pass of the loop of analyze_tickets (analyze.py:78-101), `out` being
\* the outcome of analyzer.analyze(img.path)
TicketPass(f, out) ==
    IF out.raised
    THEN LET handled == log_error(batch.log, batch.i, batch.images, f, out.exc)
         IN  [batch EXCEPT !.i = handled.i, !.log = handled.log,
                           !.attempts = Append(@, Attempt(f, FALSE, TRUE))]
    ELSE [batch EXCEPT !.i = @ + 1,
                       !.records = Append(@, TicketRecord(f, out.result, now)),
                       !.attempts = Append(@, Attempt(f, TRUE, FALSE))]

ProcessTicket ==
    /\ batch.pc = "loop"
    /\ batch.op = "analyze_tickets"
    /\ batch.i <= Len(batch.images)
    /\ \E env \in TicketEnvs :
         batch' = TicketPass(batch.images[batch.i],
                             analyze(batch.images[batch.i], batch.params.use_vision_api, env))
    /\ UNCHANGED <<KNOWN_TECHS, OCR_CORRECTIONS, last, sink, now, threads>>

\* analyze_tickets calling insert_records whatever the loop produced
FinishAnalyzeTickets_writes_always ==
    /\ batch.pc = "loop"
    /\ batch.op = "analyze_tickets"
    /\ batch.i > Len(batch.images)
    /\ sink' = [sink EXCEPT !.rows = insert_records(@, batch.records)]
    /\ batch' = [batch EXCEPT !.pc = "done", !.written = batch.records, !.writes = @ + 1]
    /\ UNCHANGED <<KNOWN_TECHS, OCR_CORRECTIONS, last, now, threads>>

\* analyze_tickets after the loop (analyze.py:103-109)
FinishAnalyzeTickets ==
    /\ batch.pc = "loop"
    /\ batch.op = "analyze_tickets"
    /\ batch.i > Len(batch.images)
    /\ IF batch.records # <<>>
       THEN /\ sink' = [sink EXCEPT !.rows = insert_records(@, batch.records)]
            /\ batch' = [batch EXCEPT !.pc = "done", !.written = batch.records,
                                      !.writes = @ + 1]
       ELSE /\ sink' = sink
            /\ batch' = [batch EXCEPT !.pc = "done"]
    /\ UNCHANGED <<KNOWN_TECHS, OCR_CORRECTIONS, last, now, threads>>

\* the run has returned to its caller
Exit ==
    /\ batch.pc = "done"
    /\ batch' = [pc |-> "idle"]
    /\ UNCHANGED <<KNOWN_TECHS, OCR_CORRECTIONS, last, sink, now, threads>>

\* the region settings.signature_region is set to for pages of 67 x 84
PAGE_SIGNATURE_REGION == [top |-> 68, left |-> 10, width |-> 20, height |-> 10]

\* round(confidence, 2) of a mean <<sum, count>> of block confidences, in
\* hundredths (the responses used give no mean half way between two)
round2(c) == (2 * c[1] + c[2]) \div (2 * c[2])

UNKNOWN == <<"U", "N", "K", "N", "O", "W", "N">>
YES == <<"Y", "e", "s">>
NO == <<"N", "o">>

\* AuditRecord.to_row() of sheets_writer.py
to_row(r) ==
    [image_id |-> r.image_id,
     technician |-> IF r.technician_name \in {NoneVal, <<>>} THEN UNKNOWN
                    ELSE r.technician_name,
     signature |-> IF r.has_signature THEN YES ELSE NO,
     confidence |-> round2(r.confidence),
     audit_date |-> r.audit_date]

\* SheetsWriter.write_audit_records(records)
write_audit_records(rows, records) ==
    IF records = <<>> THEN rows
    ELSE rows \o [j \in 1..Len(records) |-> to_row(records[j])]

\* column A read from its third row on
get_processed_image_ids_from_row_3(rows) == {rows[j].image_id : j \in 2..Len(rows)}

\* SheetsWriter.get_processed_image_ids(): column A below the header
get_processed_image_ids(rows) == {rows[j].image_id : j \in 1..Len(rows)}

\* what one pass of the loop of run_audit meets: whether the download
\* works, the answer of the OCR service, whether progress_callback raises
AuditEnvs ==
    {[download |-> "raise", response |-> NoResponse, callback_raises |-> FALSE]}
    \cup {[download |-> "ok", response |-> r, callback_raises |-> c] :
            r \in {ErrorResponse,
                   OkResponse(T_TECHNICIAN_JOHN,
                              <<Block(95, <<Word(T_TECHNICIAN_JOHN, 5, 10)>>)>>)},
            c \in BOOLEAN}

\* the AuditRecord built at audit_service.py:114-122 from the outcome of
\* analyzer.analyze(image)
AuditOutcome(f, out, audit_date) ==
    IF out.raised THEN out
    ELSE [raised |-> FALSE,
          record |-> [image_id |-> f,
                      technician_name |-> out.result.technician_name,
                      has_signature |-> out.result.has_signature,
                      confidence |-> out.result.confidence,
                      audit_date |-> audit_date]]

\* AuditService._process_image(image)
process_image(f, env, audit_date) ==
    IF env.download = "raise" THEN Raised("HttpError")
    ELSE AuditOutcome(f, vision_analyze(FileImage(f), DEFAULT_TECH_NAME_REGION,
                                        PAGE_SIGNATURE_REGION, FALSE, env.response,
                                        NoResponse),
                      audit_date)

\* the listed images whose id is not in `processed_ids`
\* (audit_service.py:66)
images_to_process(listed, processed_ids) ==
    LET NotProcessed(f) == f \notin processed_ids
    IN  SelectSeq(Ascending(listed), NotProcessed)

\* run_audit(since, until, skip_processed, progress_callback) up to the
\* loop (audit_service.py:49-74)
StartRunAudit ==
    \E listed \in SUBSET Files, skip_processed \in BOOLEAN, callback \in BOOLEAN :
        LET processed_ids == IF skip_processed THEN get_processed_image_ids(sink.rows)
                             ELSE {}
            params == [listed |-> listed, skip_processed |-> skip_processed,
                       callback |-> callback, processed |-> processed_ids]
        IN  /\ Idle
            /\ sink.kind = "sheet"
            /\ now < MaxRuns
            /\ now' = now + 1
            /\ batch' = Started("run_audit", params, images_to_process(listed, processed_ids))
            /\ UNCHANGED <<KNOWN_TECHS, OCR_CORRECTIONS, last, sink, threads>>

\* a pass of run_audit that calls progress_callback before it appends
ImagePass_callback_first(f, out, callback_raises) ==
    LET failed == out.raised \/ (batch.params.callback /\ callback_raises)
        exc == IF out.raised THEN out.exc ELSE "CallbackError"
        handled == log_error(batch.log, batch.i, batch.images, f, exc)
    IN  [batch EXCEPT
           !.i = IF failed THEN handled.i ELSE @ + 1,
           !.records = IF failed THEN @ ELSE Append(@, out.record),
           !.log = IF failed THEN handled.log ELSE @,
           !.attempts = Append(@, Attempt(f, ~out.raised, failed))]

\* one pass of the loop of run_audit (audit_service.py:82-93), `out` being
\* the outcome of _process_image: the record is appended before
\* progress_callback is called
ImagePass(f, out, callback_raises) ==
    LET failed == out.raised \/ (batch.params.callback /\ callback_raises)
        exc == IF out.raised THEN out.exc ELSE "CallbackError"
        handled == log_error(batch.log, batch.i, batch.images, f, exc)
    IN  [batch EXCEPT
           !.i = IF failed THEN handled.i ELSE @ + 1,
           !.records = IF out.raised THEN @ ELSE Append(@, out.record),
           !.log = IF failed THEN handled.log ELSE @,
           !.attempts = Append(@, Attempt(f, ~out.raised, failed))]

ProcessImage ==
    /\ batch.pc = "loop"
    /\ batch.op = "run_audit"
    /\ batch.i <= Len(batch.images)
    /\ \E env \in AuditEnvs :
         batch' = ImagePass(batch.images[batch.i],
                            process_image(batch.images[batch.i], env, now),
                            env.callback_raises)
    /\ UNCHANGED <<KNOWN_TECHS, OCR_CORRECTIONS, last, sink, now, threads>>

\* run_audit after the loop (audit_service.py:95-101)
FinishRunAudit ==
    /\ batch.pc = "loop"
    /\ batch.op = "run_audit"
    /\ batch.i > Len(batch.images)
    /\ IF batch.records # <<>>
       THEN /\ sink' = [sink EXCEPT !.rows = write_audit_records(@, batch.records)]
            /\ batch' = [batch EXCEPT !.pc = "done", !.written = batch.records,
                                      !.writes = @ + 1]
       ELSE /\ sink' = sink
            /\ batch' = [batch EXCEPT !.pc = "done"]
    /\ UNCHANGED <<KNOWN_TECHS, OCR_CORRECTIONS, last, now, threads>>

\* the two programs: analyze.py with audit.db, the audit service with the
\* sheet
InitBatch ==
    /\ KNOWN_TECHS = INITIAL_KNOWN_TECHS
    /\ OCR_CORRECTIONS = INITIAL_OCR_CORRECTIONS
    /\ last = [op |-> "idle"]
    /\ batch = [pc |-> "idle"]
    /\ sink \in {EmptyDatabase, EmptySheet}
    /\ now = 0
    /\ threads = [t \in Threads |-> NotCalled]

NextBatch ==
    \/ StartAnalyzeTickets \/ ProcessTicket \/ FinishAnalyzeTickets
    \/ StartRunAudit \/ ProcessImage \/ FinishRunAudit
    \/ Exit

SpecBatch == InitBatch /\ [][NextBatch]_vars

\* a loop that has started goes on: nothing in it waits
FairSpecBatch ==
    /\ SpecBatch
    /\ WF_vars(ProcessTicket) /\ WF_vars(FinishAnalyzeTickets)
    /\ WF_vars(ProcessImage) /\ WF_vars(FinishRunAudit)

(***************************************************************************)
(* add_known_tech called by threads without a lock.  The interpreter runs  *)
(* the membership test, list.append and list.sort each in one piece and    *)
(* can switch threads between them; a call normalize_tech_name reads the   *)
(* list as it is between two such pieces.                                  *)
(***************************************************************************)
\* the names the threads register: one that sorts into the middle of the
\* list and one that sorts behind it
ThreadNames == {<<"K", "o", "b", "y", " ", "A">>, <<"Z", "e", "d", " ", "Q">>}

\* the names looked up meanwhile
LookupNames == {<<"K", "o", "b", "y", " ", "G">>, <<"Z", "e", "d", " ", "Q">>}

\* `if name and name not in KNOWN_TECHS` (tech_names.py:101) in a thread
\* that calls add_known_tech(name)
CheckMembership ==
    \E t \in Threads, name \in ThreadNames :
        /\ threads[t].pc = "not called"
        /\ threads' = [threads EXCEPT ![t] =
                          [pc |-> IF name # <<>> /\ name \notin Range(KNOWN_TECHS)
                                  THEN "append" ELSE "returned",
                           name |-> name, appended |-> FALSE]]
        /\ UNCHANGED <<KNOWN_TECHS, OCR_CORRECTIONS, last, batch, sink, now>>

\* an append that tests the membership again in the same piece
AppendName_unless_present ==
    \E t \in Threads :
        /\ threads[t].pc = "append"
        /\ KNOWN_TECHS' = IF threads[t].name \in Range(KNOWN_TECHS) THEN KNOWN_TECHS
                          ELSE Append(KNOWN_TECHS, threads[t].name)
        /\ threads' = [threads EXCEPT ![t].pc = "sort", ![t].appended = TRUE]
        /\ UNCHANGED <<OCR_CORRECTIONS, last, batch, sink, now>>

\* KNOWN_TECHS.append(name) (tech_names.py:102)
AppendName ==
    \E t \in Threads :
        /\ threads[t].pc = "append"
        /\ KNOWN_TECHS' = Append(KNOWN_TECHS, threads[t].name)
        /\ threads' = [threads EXCEPT ![t].pc = "sort", ![t].appended = TRUE]
        /\ UNCHANGED <<OCR_CORRECTIONS, last, batch, sink, now>>

\* KNOWN_TECHS.sort() (tech_names.py:103)
SortList ==
    \E t \in Threads :
        /\ threads[t].pc = "sort"
        /\ KNOWN_TECHS' = sort(KNOWN_TECHS)
        /\ threads' = [threads EXCEPT ![t].pc = "returned"]
        /\ UNCHANGED <<OCR_CORRECTIONS, last, batch, sink, now>>

\* a call normalize_tech_name(name) in another thread, which finds the
\* list as the registering threads have left it so far
Lookup ==
    \E name \in LookupNames :
        /\ last.op = "idle"
        /\ last' = [op |-> "normalize_tech_name", name |-> name,
                    ret |-> normalize_tech_name(name), seen |-> KNOWN_TECHS,
                    sorting |-> {t \in Threads : threads[t].pc = "sort"}]
        /\ UNCHANGED <<KNOWN_TECHS, OCR_CORRECTIONS, batch, sink, now, threads>>

NextThreads == CheckMembership \/ AppendName \/ SortList \/ Lookup \/ Return

SpecThreads == Init /\ [][NextThreads]_vars

(***************************************************************************)
(* AuditDatabase called on its own: insert_record and insert_records in    *)
(* any order, with records of any file.                                    *)
(***************************************************************************)
\* the most calls made on the database
MaxInserts == 2

\* the results carried by the records: a signed ticket with its technician
\* and an unsigned ticket without one
DbResults ==
    {TicketAnalysis(<<"K", "o", "b", "y", " ", "H">>, NoneVal, TRUE, 88, NoneVal, NoneVal, TRUE),
     TicketAnalysis(NoneVal, NoneVal, FALSE, 92, NoneVal, NoneVal, TRUE)}

\* the records a caller can hand over at the time `now`
DbRecords == {TicketRecord(f, result, now) : f \in Files, result \in DbResults}

\* a call db.insert_record(record)
InsertRecord ==
    \E r \in DbRecords :
        /\ Idle
        /\ sink.kind = "db"
        /\ now < MaxInserts
        /\ now' = now + 1
        /\ sink' = [sink EXCEPT !.rows = insert_record(@, r)]
        /\ last' = [op |-> "insert_record", records |-> <<r>>]
        /\ UNCHANGED <<KNOWN_TECHS, OCR_CORRECTIONS, batch, threads>>

\* a call db.insert_records(records) with a list of up to two records
InsertRecords ==
    \E records \in {<<>>} \cup {<<r>> : r \in DbRecords}
                         \cup {<<r1, r2>> : r1 \in DbRecords, r2 \in DbRecords} :
        /\ Idle
        /\ sink.kind = "db"
        /\ now < MaxInserts
        /\ now' = now + 1
        /\ sink' = [sink EXCEPT !.rows = insert_records(@, records)]
        /\ last' = [op |-> "insert_records", records |-> records]
        /\ UNCHANGED <<KNOWN_TECHS, OCR_CORRECTIONS, batch, threads>>

NextDb == InsertRecord \/ InsertRecords \/ Return

SpecDb == Init /\ [][NextDb]_vars

(***************************************************************************)
(* Claims about the batch runs, checked under SpecBatch and FairSpecBatch. *)
(***************************************************************************)
InLoop == batch.pc = "loop"
Done == batch.pc = "done"

\* the files of a sequence of attempts, records, rows or log entries
FilesOf(entries, Key(_)) == [j \in 1..Len(entries) |-> Key(entries[j])]
AttemptFile(a) == a.file
RecordFile(r) == IF batch.op = "analyze_tickets" THEN r.file_path ELSE r.image_id
Analysed(a) == a.analysed
Failed(a) == a.raised

\* the rows a record becomes in the store of the run
StoredRow(r) == IF batch.op = "analyze_tickets" THEN DbRow(r) ELSE to_row(r)

\* every image before position i has been attempted, in order; the records
\* are those of the attempts whose analysis gave a result; every attempt
\* that raised has its log entry
LoopKeepsGoing ==
    /\ Len(batch.attempts) = batch.i - 1
    /\ \A k \in 1..Len(batch.attempts) : batch.attempts[k].file = batch.images[k]
    /\ FilesOf(batch.records, RecordFile)
         = FilesOf(SelectSeq(batch.attempts, Analysed), AttemptFile)
    /\ FilesOf(batch.log, AttemptFile)
         = FilesOf(SelectSeq(batch.attempts, Failed), AttemptFile)

\* a run that has returned attempted every image and handed every record
\* to its store
EveryRecordStored ==
    /\ batch.i = Len(batch.images) + 1
    /\ batch.written = batch.records
    /\ \A k \in 1..Len(batch.records) :
           \E j \in 1..Len(sink.rows) : sink.rows[j] = StoredRow(batch.records[k])

\* C11: a pass of the loop that raises is logged and the loop goes on:
\* every image of the batch is attempted, the run comes to its end, and the
\* record of every image whose analysis gave a result has then been handed
\* to the store (audit.db, the sheet).
C11_BatchSurvives ==
    /\ []((InLoop \/ Done) => LoopKeepsGoing)
    /\ [](Done => EveryRecordStored)
    /\ [](InLoop => <>Done)

\* a run has returned after a pass that raised was followed by a pass that
\* gave a record
C11_Witness ==
    /\ Done
    /\ \E k \in 1..Len(batch.attempts) : \E m \in (k + 1)..Len(batch.attempts) :
           /\ batch.attempts[k].raised /\ ~batch.attempts[k].analysed
           /\ batch.attempts[m].analysed
    /\ batch.writes = 1

(***************************************************************************)
(* Claims about the analyzers, checked under Spec.                         *)
(***************************************************************************)
IsLocalAnalysis == last.op = "_analyze_local"
IsAnalysis == last.op \in {"_analyze_local", "_analyze_with_vision", "VisionAnalyzer.analyze"}

\* C1: an analysis on the local path never ends in an exception, and for
\* image bytes that do not decode (empty or corrupt) it returns a
\* TicketAnalysis whose technician_name, technician_role, ticket_number and
\* ticket_date are None, whose has_signature is False and whose
\* signature_confidence is a number.  The code opens the image outside
\* every try block, so this is violated.
C1_LocalNeverRaises ==
    IsLocalAnalysis =>
        /\ ~last.out.raised
        /\ ~last.img.decodable =>
            /\ last.out.result.technician_name = NoneVal
            /\ last.out.result.technician_role = NoneVal
            /\ last.out.result.ticket_number = NoneVal
            /\ last.out.result.ticket_date = NoneVal
            /\ last.out.result.has_signature = FALSE
            /\ last.out.result.signature_confidence \in Nat

\* C2: in every result an analyzer returns, technician_name is None or a
\* member of KNOWN_TECHS as it stands at the call.  VisionAnalyzer returns
\* the text its pattern captured, so this is violated.
C2_NameIsKnown ==
    (IsAnalysis /\ ~last.out.raised) =>
        \/ last.out.result.technician_name = NoneVal
        \/ last.out.result.technician_name \in Range(KNOWN_TECHS)

\* C12: on the OCR-service path an OCR call whose response reports an
\* error makes the analysis raise, for the call on the full page and for
\* the call of the handwriting check on the cropped signature region.
\* _check_handwriting_in_region never looks at response.error, so this is
\* violated.
C12_OcrErrorIsRaised ==
    /\ (last.op \in {"_analyze_with_vision", "VisionAnalyzer.analyze"}
        /\ last.response.kind = "error") => last.out.raised
    /\ (last.op = "VisionAnalyzer.analyze"
        /\ last.region_response.kind = "error") => last.out.raised

\* the outcome of signature detection for the image of the last local
\* analysis
LastSignature == detect_signature_universal(last.img, last.strict)
SignatureAsDetected ==
    /\ last.out.result.has_signature = LastSignature.has_signature
    /\ last.out.result.signature_confidence = LastSignature.confidence

\* C13: the steps of the local path do not cut each other short.  When OCR
\* of the technician region throws, technician_name and technician_role
\* are None while the header fields and the signature result are what
\* their own steps give; when OCR of the header region throws,
\* ticket_number and ticket_date are None while the technician fields and
\* the signature result are what their own steps give.  An OCR call that
\* throws never makes the analysis raise.
C13_StepsIndependent ==
    (IsLocalAnalysis /\ last.img.decodable) =>
        /\ last.out.raised = LastSignature.raised
        /\ ~last.out.raised =>
            /\ SignatureAsDetected
            /\ last.tech_ocr.kind = "raise" =>
                /\ last.out.result.technician_name = NoneVal
                /\ last.out.result.technician_role = NoneVal
            /\ last.tech_ocr.kind = "ok" =>
                /\ last.out.result.technician_name
                     = normalize_tech_name(extract_technician(last.tech_ocr.text)[1])
                /\ last.out.result.technician_role
                     = extract_technician(last.tech_ocr.text)[2]
            /\ last.header_ocr.kind = "raise" =>
                /\ last.out.result.ticket_number = NoneVal
                /\ last.out.result.ticket_date = NoneVal
            /\ last.header_ocr.kind = "ok" =>
                /\ last.out.result.ticket_number
                     = extract_ticket_number(last.header_ocr.text)
                /\ last.out.result.ticket_date = extract_date(last.header_ocr.text)

\* OCR of the technician region threw, and the header fields and the
\* signature are there all the same
C13_Witness ==
    /\ IsLocalAnalysis
    /\ last.tech_ocr.kind = "raise"
    /\ last.header_ocr.kind = "ok"
    /\ ~last.out.raised
    /\ last.out.result.ticket_number # NoneVal
    /\ last.out.result.ticket_date # NoneVal
    /\ last.out.result.has_signature

\* C14: on the OCR-service path of TicketAnalyzer.analyze, a response
\* without error gives a TicketAnalysis whose has_legal_text tells whether
\* the text of the page contains "I have reviewed this form".  The path
\* ends in AttributeError before it builds a result, so this is violated.
C14_LegalTextFromPage ==
    (last.op = "_analyze_with_vision" /\ last.response.kind = "ok") =>
        /\ ~last.out.raised
        /\ last.out.result.has_legal_text = Contains(last.response.text, LEGAL_TEXT)

\* C15: every TicketAnalysis of the local path has has_legal_text true.
C15_LocalLegalTextForced ==
    (IsLocalAnalysis /\ ~last.out.raised) => last.out.result.has_legal_text = TRUE

\* a local analysis of a blank page whose OCR calls both threw
C15_Witness ==
    /\ IsLocalAnalysis
    /\ ~last.out.raised
    /\ last.tech_ocr.kind = "raise"
    /\ last.header_ocr.kind = "raise"
    /\ ~last.out.result.has_signature
    /\ last.out.result.has_legal_text

(***************************************************************************)
(* Claims about the name normalizer, checked under SpecNames.              *)
(***************************************************************************)
IsNormalizeCall == last.op = "normalize_tech_name"

\* the similarity of n to every registered name, in KNOWN_TECHS order
Scores(n) == [i \in 1..Len(KNOWN_TECHS) |-> similarity(n, KNOWN_TECHS[i])]

\* the positions whose score is the maximum and at least the threshold
Accepted(sc) ==
    {i \in DOMAIN sc : /\ RatioGE(sc[i], FUZZY_THRESHOLD)
                       /\ \A j \in DOMAIN sc : ~RatioGT(sc[j], sc[i])}

Min(S) == CHOOSE x \in S : \A y \in S : x <= y

\* C3: after any sequence of add_known_tech calls, normalize_tech_name
\* returns None or an element of the current KNOWN_TECHS, and every value of
\* the OCR_CORRECTIONS table is a member of KNOWN_TECHS.
C3_NormalizeClosed ==
    /\ IsNormalizeCall => (last.ret = NoneVal \/ last.ret \in Range(KNOWN_TECHS))
    /\ \A k \in DOMAIN OCR_CORRECTIONS : OCR_CORRECTIONS[k] \in Range(KNOWN_TECHS)

\* C3 witness: with a name registered, a call returned a registered name
\* that is not its trimmed input.
C3_Witness ==
    /\ IsNormalizeCall
    /\ Len(KNOWN_TECHS) > Len(INITIAL_KNOWN_TECHS)
    /\ last.ret # NoneVal
    /\ last.ret # strip(last.name)

\* C4: for every key of the correction table normalize_tech_name(key) is
\* the table's value, whatever has been registered, the key itself included.
C4_CorrectionsWin ==
    /\ \A k \in DOMAIN OCR_CORRECTIONS : normalize_tech_name(k) = OCR_CORRECTIONS[k]
    /\ (IsNormalizeCall /\ last.name \in DOMAIN OCR_CORRECTIONS)
           => last.ret = OCR_CORRECTIONS[last.name]

\* C4 witness: a correction key that has been registered as a canonical
\* name was normalized to the table's value.
C4_Witness ==
    /\ IsNormalizeCall
    /\ last.name \in DOMAIN OCR_CORRECTIONS
    /\ last.name \in Range(KNOWN_TECHS)
    /\ last.ret = OCR_CORRECTIONS[last.name]
    /\ last.ret # last.name

\* C5 as stated: normalize(normalize(x)) = normalize(x) for every x in
\* KNOWN_TECHS, after any sequence of add_known_tech calls.
C5_IdempotentOnRegistry ==
    \A x \in Range(KNOWN_TECHS) :
        normalize_tech_name(normalize_tech_name(x)) = normalize_tech_name(x)

\* C5 amended: normalize(normalize(x)) = normalize(x) for every x in
\* KNOWN_TECHS that has no leading or trailing whitespace, after any
\* sequence of add_known_tech calls.
C5_IdempotentOnTrimmed ==
    /\ \A x \in Range(KNOWN_TECHS) :
           strip(x) = x =>
               normalize_tech_name(normalize_tech_name(x)) = normalize_tech_name(x)
    /\ (IsNormalizeCall /\ last.name \in Range(KNOWN_TECHS) /\ strip(last.name) = last.name)
           => normalize_tech_name(last.ret) = last.ret

\* C5 witness: a registered name without surrounding whitespace was
\* normalized to a different name (it is also a correction key).
C5_Witness ==
    /\ IsNormalizeCall
    /\ last.name \in Range(KNOWN_TECHS)
    /\ strip(last.name) = last.name
    /\ last.ret # last.name

IsLocalDetect == last.op = "_detect_signature_universal"
IsVisionDetect == last.op = "_detect_signature"

\* the region the last detector call resolved, and its ink density
LastBox ==
    IF IsLocalDetect THEN LocalSigBox(last.img) ELSE VisionSigBox(last.img, last.region)
LastTotal == Cardinality(BoxPixels(LastBox))
LastDensity ==
    <<DarkPixels(last.img, LastBox,
                 IF IsLocalDetect THEN LOCAL_DARK_THRESHOLD ELSE VISION_DARK_THRESHOLD),
      LastTotal>>

Between(lo, d, hi) == RatioLE(lo, d) /\ RatioLE(d, hi)

\* the last call was given a decodable image whose region has pixels
NonDegenerate == last.img.decodable /\ LastTotal > 0

\* the last call was given a decodable image whose region is degenerate:
\* bottom <= top, or no pixels (a right edge left of the left edge included)
Degenerate ==
    /\ last.img.decodable
    /\ (LastBox[4] <= LastBox[2] \/ LastTotal = 0)

\* C7: for a non-degenerate region of ink density d the local detector
\* returns (false, 0.92) if d < 0.02, (true, 0.88) if 0.025 <= d <= 0.07,
\* (true, 0.72) if 0.02 <= d <= 0.10 outside [0.025, 0.07], and
\* (true, 0.55) if d > 0.10.
C7_LocalPolicy ==
    (IsLocalDetect /\ NonDegenerate) =>
        LET d == LastDensity
        IN  /\ RatioLT(d, <<2, 100>>) => last.out = Returned(FALSE, 92)
            /\ Between(<<25, 1000>>, d, <<7, 100>>) => last.out = Returned(TRUE, 88)
            /\ (Between(<<2, 100>>, d, <<10, 100>>) /\ ~Between(<<25, 1000>>, d, <<7, 100>>))
                   => last.out = Returned(TRUE, 72)
            /\ RatioGT(d, <<10, 100>>) => last.out = Returned(TRUE, 55)

\* C7 witness: a region whose density is exactly 0.025, the lower edge of
\* the sweet spot, was judged (true, 0.88).
C7_Witness ==
    /\ IsLocalDetect
    /\ NonDegenerate
    /\ LastDensity[1] * 1000 = 25 * LastDensity[2]
    /\ last.out = Returned(TRUE, 88)

\* C8: for ink density d VisionAnalyzer._detect_signature returns
\* (false, 0.90) if d < 0.01, (true, 0.90) if 0.03 <= d <= 0.10, (true, 0.70)
\* if 0.01 <= d <= 0.20 outside [0.03, 0.10], and if d > 0.20 (true, 0.75)
\* when a block of the OCR response for the cropped region has confidence
\* below 0.8, otherwise (false, 0.50).
C8_VisionPolicy ==
    (IsVisionDetect /\ NonDegenerate) =>
        LET d == LastDensity
        IN  /\ RatioLT(d, <<1, 100>>) => last.out = Returned(FALSE, 90)
            /\ Between(<<3, 100>>, d, <<10, 100>>) => last.out = Returned(TRUE, 90)
            /\ (Between(<<1, 100>>, d, <<20, 100>>) /\ ~Between(<<3, 100>>, d, <<10, 100>>))
                   => last.out = Returned(TRUE, 70)
            /\ (RatioGT(d, <<20, 100>>) /\ ~last.out.raised) =>
                   last.out =
                       IF \E pg \in 1..Len(last.response.pages) :
                              \E b \in 1..Len(last.response.pages[pg]) :
                                  last.response.pages[pg][b].confidence < 80
                       THEN Returned(TRUE, 75)
                       ELSE Returned(FALSE, 50)

\* C8 witness: a density above 0.20 was judged (true, 0.75) on a response
\* with one block above and one below 0.8.
C8_Witness ==
    /\ IsVisionDetect
    /\ NonDegenerate
    /\ RatioGT(LastDensity, <<20, 100>>)
    /\ last.response.kind = "ok"
    /\ \E pg \in 1..Len(last.response.pages) :
           \E b \in 1..Len(last.response.pages[pg]) :
               last.response.pages[pg][b].confidence >= 80
    /\ last.out = Returned(TRUE, 75)

\* C9: for every degenerate signature region (bottom <= top, or width or
\* height of 0 pixels, a right edge left of the left edge included) both
\* detectors return exactly (false, 0.5) and never raise.
C9_DegenerateSentinel ==
    ((IsLocalDetect \/ IsVisionDetect) /\ Degenerate) => last.out = Returned(FALSE, 50)

\* C10: every result a signature detector returns carries a confidence in
\* [0, 1], also when has_signature is false.
C10_ConfidenceInRange ==
    ((IsLocalDetect \/ IsVisionDetect) /\ ~last.out.raised) =>
        /\ last.out.has_signature \in BOOLEAN
        /\ last.out.confidence \in 0..100

\* C10 witness: the handwriting check returned "no signature" with its
\* confidence.
C10_Witness ==
    /\ IsVisionDetect
    /\ last.response # NoResponse
    /\ ~last.out.raised
    /\ ~last.out.has_signature
    /\ last.out.confidence \in 0..100

\* ascending in the order of Python's str comparison, each name once
StrictlyAscending(s) == \A i, j \in 1..Len(s) : i < j => StrLess(s[i], s[j])

\* what a step that is a call add_known_tech(name) does to the list
RegisterEffect ==
    last'.op = "add_known_tech" =>
        IF last'.name # <<>> /\ last'.name \notin Range(KNOWN_TECHS)
        THEN /\ Range(KNOWN_TECHS') = Range(KNOWN_TECHS) \cup {last'.name}
             /\ Len(KNOWN_TECHS') = Len(KNOWN_TECHS) + 1
        ELSE KNOWN_TECHS' = KNOWN_TECHS

\* C16: after any sequence of add_known_tech calls KNOWN_TECHS is sorted
\* ascending and holds no name twice; a call with a name not yet present
\* adds that name and removes none, a call with a name already present or
\* with an empty name leaves the list as it is.
C16_RegistrySorted ==
    /\ [](StrictlyAscending(KNOWN_TECHS))
    /\ [][RegisterEffect]_vars

\* a new name has been registered and sorted in before the end of the list
C16_Witness ==
    /\ last.op = "add_known_tech"
    /\ Len(KNOWN_TECHS) = Len(INITIAL_KNOWN_TECHS) + 1
    /\ \E i \in 1..(Len(KNOWN_TECHS) - 1) : KNOWN_TECHS[i] = last.name

(***************************************************************************)
(* Claims about the extractors, checked under SpecExtract.                 *)
(***************************************************************************)
IsFormCall == last.op = "_extract_technician" /\ last.form # NoForm

\* the pair the claim gives for a text of the form
FormResult(form) == <<title(form.first) \o <<" ">> \o upper(form.initial), form.role>>

\* C17 as stated: for every text "by <FirstName> <LastInitial> [Ld] <Role>"
\* whose first name has one or more letters and whose role is a word,
\* extract_technician returns (title-cased first name, a space, upper-cased
\* initial; the role as written).  A first name or a role of one letter is
\* matched by no pattern part, so this is violated.
C17_FormAnyLength == IsFormCall => last.out = FormResult(last.form)

\* C17 amended: the same for a first name of two or more letters and a role
\* of two or more letters.
C17_FormTwoLetters ==
    (IsFormCall /\ Len(last.form.first) >= 2 /\ Len(last.form.role) >= 2) =>
        last.out = FormResult(last.form)

\* a lower-case name with an "Ld" token before the role
C17_Witness ==
    /\ IsFormCall
    /\ last.form.first = <<"k", "o", "b", "y">>
    /\ last.form.ld = <<"L", "d">>
    /\ last.out = <<<<"K", "o", "b", "y", " ", "H">>, <<"h", "e", "l", "p", "e", "r">>>>

IsTechnicianCall == last.op = "_extract_technician"

\* C18: the three patterns are tried in order on the cleaned text and the
\* first that matches gives the result: pattern 1, then pattern 2, then
\* pattern 3 with the role None; (None, None) when none matches.  A name is
\* returned exactly when some pattern matches.
C18_FirstPatternWins ==
    IsTechnicianCall =>
        LET text == clean_ocr_text(last.text)
            m1 == search(pattern1, text)
            m2 == search(pattern2, text)
            m3 == search(pattern3, text)
        IN  /\ m1.ok => last.out = <<FullName(text, m1), group(text, m1, 3)>>
            /\ (~m1.ok /\ m2.ok) => last.out = <<FullName(text, m2), group(text, m2, 3)>>
            /\ (~m1.ok /\ ~m2.ok /\ m3.ok) => last.out = <<FullName(text, m3), NoneVal>>
            /\ (~m1.ok /\ ~m2.ok /\ ~m3.ok) => last.out = <<NoneVal, NoneVal>>
            /\ (last.out[1] # NoneVal) <=> (m1.ok \/ m2.ok \/ m3.ok)

\* pattern 2 matches from the start of the text, pattern 1 only later in
\* it, and pattern 1 gives the result
C18_Witness ==
    /\ IsTechnicianCall
    /\ last.text = <<"b", "y", " ", "J", "o", "h", "n", " ", "D", "T", "e", "c", "h", " ", "b", "y", " ", "K", "o", "b", "y", " ", "H", " ", "T", "e", "c", "h">>
    /\ search(pattern2, clean_ocr_text(last.text)).ok
    /\ last.out = <<<<"K", "o", "b", "y", " ", "H">>, <<"T", "e", "c", "h">>>>

\* the number of digits in a row from position i of the text
RECURSIVE DigitRun(_, _)
DigitRun(text, i) ==
    IF i > Len(text) \/ text[i] \notin DIGIT THEN 0 ELSE 1 + DigitRun(text, i + 1)

\* the places of a "#" with five digits or more right behind it
NumberStarts(text) == {i \in 1..Len(text) : text[i] = "#" /\ DigitRun(text, i + 1) >= 5}

\* C19: extract_ticket_number returns the digits behind the leftmost "#"
\* that has five or more digits right behind it, seven of them at most, so
\* a result that is not None is 5 to 7 digits and nothing else; it returns
\* None when there is no such "#" ("#12"), and "123456" for "#123456".
C19_TicketNumber ==
    last.op = "_extract_ticket_number" =>
        IF NumberStarts(last.text) = {}
        THEN last.out = NoneVal
        ELSE LET i == Min(NumberStarts(last.text))
             IN  /\ last.out = SubSeq(last.text, i + 1, i + Min({7, DigitRun(last.text, i + 1)}))
                 /\ Len(last.out) \in 5..7
                 /\ \A k \in 1..Len(last.out) : last.out[k] \in DIGIT

\* a "#" with too few digits comes first and is passed over
C19_Witness ==
    /\ last.op = "_extract_ticket_number"
    /\ last.text = <<"#", "1", "2", " ", "#", "1", "2", "3", "4", "5", "6">>
    /\ last.out = <<"1", "2", "3", "4", "5", "6">>

\* 1-2 digits, "/", 1-2 digits, "/", 2 digits
IsDateText(t) ==
    \E a, b \in 1..2 :
        /\ Len(t) = a + b + 4
        /\ \A k \in (1..a) \cup ((a + 2)..(a + b + 1)) \cup ((a + b + 3)..(a + b + 4)) :
               t[k] \in DIGIT
        /\ t[a + 1] = "/"
        /\ t[a + b + 2] = "/"
DateAt(text, i) ==
    {SubSeq(text, i, j) : j \in {k \in i..Len(text) : IsDateText(SubSeq(text, i, k))}}
DateStarts(text) == {i \in 1..Len(text) : DateAt(text, i) # {}}

\* C20: extract_date returns the leftmost part of the text that is 1-2
\* digits, "/", 1-2 digits, "/", 2 digits, as it stands in the text, and
\* None when the text has no such part.
C20_Date ==
    last.op = "_extract_date" =>
        IF DateStarts(last.text) = {}
        THEN last.out = NoneVal
        ELSE DateAt(last.text, Min(DateStarts(last.text))) = {last.out}

\* a month 13 and a day 45 come back as they are
C20_Witness ==
    /\ last.op = "_extract_date"
    /\ last.text = <<"1", "3", "/", "4", "5", "/", "9", "9">>
    /\ last.out = <<"1", "3", "/", "4", "5", "/", "9", "9">>

(***************************************************************************)
(* Further claims about the name normalizer, checked under SpecNames.      *)
(***************************************************************************)
\* C21: normalize_tech_name returns None for None and for the empty string,
\* whatever the registry and the correction table hold.
C21_FalsyIsNone ==
    /\ \A name \in {NoneVal, <<>>} : normalize_tech_name(name) = NoneVal
    /\ (IsNormalizeCall /\ last.name \in {NoneVal, <<>>}) => last.ret = NoneVal

\* with two names registered, a call on the empty string returned None
C21_Witness ==
    /\ IsNormalizeCall
    /\ last.name = <<>>
    /\ last.ret = NoneVal
    /\ Len(KNOWN_TECHS) = Len(INITIAL_KNOWN_TECHS) + 2

(***************************************************************************)
(* The registry as shared state, checked under SpecFrame.                  *)
(***************************************************************************)
\* a step that changes the registry is a call add_known_tech(name) with
\* the effect of that call, and no step changes the correction table
RegistryFrame ==
    /\ OCR_CORRECTIONS' = OCR_CORRECTIONS
    /\ KNOWN_TECHS' # KNOWN_TECHS =>
           /\ last'.op = "add_known_tech"
           /\ KNOWN_TECHS' = add_known_tech(KNOWN_TECHS, last'.name)

\* the analysis just returned, made again on the same bytes with the same
\* OCR outputs
SameAnalysisAgain ==
    /\ last.op = "_analyze_local" =>
           last.out = analyze_local(last.img, last.strict, last.tech_ocr, last.header_ocr)
    /\ last.op = "_analyze_with_vision" =>
           last.out = analyze_with_vision(last.img, last.response)

\* C22: KNOWN_TECHS and OCR_CORRECTIONS are changed by add_known_tech only:
\* normalize_tech_name calls and TicketAnalyzer.analyze calls leave them as
\* they were, so an analysis repeated on the same bytes with the same OCR
\* outputs and no registration in between returns an equal result.
C22_RegistryFrame == [][RegistryFrame]_vars /\ [](SameAnalysisAgain)

\* with a name registered, a local analysis returned a name of the registry
C22_Witness ==
    /\ last.op = "_analyze_local"
    /\ ~last.out.raised
    /\ last.out.result.technician_name \in Range(KNOWN_TECHS)
    /\ Len(KNOWN_TECHS) > Len(INITIAL_KNOWN_TECHS)

(***************************************************************************)
(* The crop box of the OCR-service detector, checked under SpecSig.        *)
(***************************************************************************)
\* C23: the box the OCR-service signature detector crops lies inside the
\* image: 0 <= left <= right <= width and 0 <= top <= bottom <= height, for
\* every configured region and every image size.
C23_BoxInsideImage ==
    (IsVisionDetect /\ last.img.decodable) =>
        LET box == VisionSigBox(last.img, last.region)
        IN  /\ 0 <= box[1] /\ box[1] <= box[3] /\ box[3] <= last.img.width
            /\ 0 <= box[2] /\ box[2] <= box[4] /\ box[4] <= last.img.height

(***************************************************************************)
(* The clean-up of the technician text, checked under SpecExtract.         *)
(***************************************************************************)
\* the rewriting as it is stated: "|" becomes "I", "/" and "\" go, every
\* other character that is neither a letter, a digit nor whitespace becomes
\* a space, and a run of whitespace becomes one space
RECURSIVE CollapseRuns(_)
CollapseRuns(text) ==
    IF text = <<>> THEN <<>>
    ELSE IF Head(text) \in SPACE
    THEN IF Len(text) > 1 /\ text[2] \in SPACE THEN CollapseRuns(Tail(text))
         ELSE <<" ">> \o CollapseRuns(Tail(text))
    ELSE <<Head(text)>> \o CollapseRuns(Tail(text))
RECURSIVE Rewrite(_)
Rewrite(text) ==
    IF text = <<>> THEN <<>>
    ELSE (CASE Head(text) = "|" -> <<"I">>
            [] Head(text) \in {"/", "\\"} -> <<>>
            [] Head(text) \in ALPHA \cup DIGIT \cup SPACE -> <<Head(text)>>
            [] OTHER -> <<" ">>) \o Rewrite(Tail(text))
StatedCleanUp(text) == CollapseRuns(Rewrite(text))

\* the three patterns tried in their order on a text as it stands
PatternResult(text) ==
    LET m1 == search(pattern1, text)
        m2 == search(pattern2, text)
        m3 == search(pattern3, text)
    IN  IF m1.ok THEN <<FullName(text, m1), group(text, m1, 3)>>
        ELSE IF m2.ok THEN <<FullName(text, m2), group(text, m2, 3)>>
        ELSE IF m3.ok THEN <<FullName(text, m3), NoneVal>>
        ELSE <<NoneVal, NoneVal>>

\* C24: extract_technician matches its patterns on the text rewritten so
\* that every "|" is "I", "/" and "\" are removed, every other character
\* that is neither alphanumeric nor whitespace is a space, and every run of
\* whitespace is one space.
C24_CleanUpAsStated ==
    last.op = "_extract_technician" => last.out = PatternResult(StatedCleanUp(last.text))

(***************************************************************************)
(* Further claims about the batch runs, checked under SpecBatch.           *)
(***************************************************************************)
\* the identifiers the store holds: file paths in audit.db, image ids in
\* the sheet
SinkIds ==
    {IF sink.kind = "db" THEN sink.rows[j].file_path ELSE sink.rows[j].image_id :
        j \in 1..Len(sink.rows)}

Skipping == batch.params.skip_processed

\* the store is as it was at the start of the run until the loop has ended:
\* no image of the run is in it
NoneProcessedBefore ==
    /\ (InLoop /\ Skipping) => \A k \in 1..Len(batch.images) : batch.images[k] \notin SinkIds
    /\ (Done /\ Skipping) =>
           \A k \in 1..Len(batch.attempts) : batch.attempts[k].file \notin batch.params.processed

\* the lists of images a run made now, with the arguments of the run that
\* has just returned, can have
NextLists ==
    IF batch.op = "analyze_tickets"
    THEN sample(collect_images(batch.params.listed, get_processed_paths(sink.rows)),
                batch.params.sample_size)
    ELSE {images_to_process(batch.params.listed, get_processed_image_ids(sink.rows))}

\* after a run whose images all gave a result the next run has no image,
\* returns before its loop and writes nothing
NothingLeft ==
    (\A k \in 1..Len(batch.attempts) : batch.attempts[k].analysed) =>
        \A images \in NextLists :
            /\ images = <<>>
            /\ Started(batch.op, batch.params, images).pc = "done"

\* an image whose analysis raised has no row and is in the list of the
\* next run
FailedComesBack ==
    \A k \in 1..Len(batch.attempts) :
        ~batch.attempts[k].analysed =>
            /\ batch.attempts[k].file \notin SinkIds
            /\ \A images \in NextLists :
                   \E m \in 1..Len(images) : images[m] = batch.attempts[k].file

\* no sample is drawn: run_audit, and analyze_tickets without sample_size
NoSampling == batch.op = "run_audit" \/ batch.params.sample_size = 0

\* C25 as stated: with skip_processed a run never analyzes an image whose
\* identifier is in the store at the start of the run; a run made right
\* after a run in which every image succeeded has no image and writes
\* nothing; an image whose processing failed leaves no record and is
\* attempted again by the next run.
C25_SkipProcessed ==
    /\ NoneProcessedBefore
    /\ (Done /\ Skipping) => (NothingLeft /\ FailedComesBack)

\* C25 with the sample set apart: the first part for every run, the two
\* parts about the next run for runs that draw no sample.
C25_SkipProcessedUnsampled ==
    /\ NoneProcessedBefore
    /\ (Done /\ Skipping /\ NoSampling) => (NothingLeft /\ FailedComesBack)

\* a second run has returned that left out the image stored by the first
\* run and took up again the image the first run failed on
C25_Witness ==
    /\ Done
    /\ Skipping
    /\ NoSampling
    /\ now = 2
    /\ batch.params.processed # {}
    /\ batch.params.processed \subseteq batch.params.listed
    /\ batch.attempts # <<>>
    /\ \A k \in 1..Len(batch.attempts) : batch.attempts[k].file \notin SinkIds

(***************************************************************************)
(* The audit_records table, checked under SpecDb.                          *)
(***************************************************************************)
\* the rows of a table with a file_path
RowsOf(rows, path) == {rows[j] : j \in {k \in 1..Len(rows) : rows[k].file_path = path}}

\* no file_path is in two rows
OneRowPerPath ==
    \A j, k \in 1..Len(sink.rows) :
        sink.rows[j].file_path = sink.rows[k].file_path => j = k

\* a call that inserts leaves, for a file_path among its records, the row
\* of the last record with that file_path and no other, and leaves the rows
\* of every other file_path as they were
InsertEffect ==
    (last.op = "idle" /\ last'.op \in {"insert_record", "insert_records"}) =>
        \A path \in Files :
            LET given == {j \in 1..Len(last'.records) : last'.records[j].file_path = path}
                latest == CHOOSE j \in given : \A k \in given : k <= j
            IN  IF given = {}
                THEN RowsOf(sink'.rows, path) = RowsOf(sink.rows, path)
                ELSE RowsOf(sink'.rows, path) = {DbRow(last'.records[latest])}

\* C26: after any sequence of insert_record and insert_records calls the
\* table has at most one row per file_path, and that row has the values of
\* the record inserted last with that file_path.
C26_LatestRowPerPath == [](OneRowPerPath) /\ [][InsertEffect]_vars

\* a second call has replaced the row of a file, first by a record of an
\* unsigned ticket and then by a record of a signed one, beside the row of
\* another file
C26_Witness ==
    /\ last.op = "insert_records"
    /\ now = 2
    /\ Len(last.records) = 2
    /\ last.records[1].file_path = last.records[2].file_path
    /\ ~last.records[1].has_signature
    /\ last.records[2].has_signature
    /\ Len(sink.rows) = 2
    /\ sink.rows[2] = DbRow(last.records[2])
    /\ sink.rows[1].audit_date = 0

\* a step in which the run hands records to its store
WriteStep ==
    \/ sink' # sink
    \/ /\ batch.pc = "loop"
       /\ batch'.pc = "done"
       /\ batch'.writes # batch.writes

\* a write comes from the loop that has attempted every image and has a
\* record, it is the first of the run and it ends the run
WriteAtTheEnd ==
    WriteStep =>
        /\ batch.pc = "loop"
        /\ Len(batch.attempts) = Len(batch.images)
        /\ batch.records # <<>>
        /\ batch.writes = 0
        /\ batch'.writes = 1
        /\ batch'.pc = "done"

\* a run has written once if it has a record, and not at all otherwise;
\* a run without images has attempted nothing and written nothing
WritesCounted ==
    /\ InLoop => batch.writes = 0
    /\ Done => batch.writes = (IF batch.records # <<>> THEN 1 ELSE 0)
    /\ (Done /\ batch.images = <<>>) =>
           (batch.attempts = <<>> /\ batch.records = <<>> /\ batch.writes = 0)

\* C27: a batch run writes to its store at most once, after every image
\* of the batch has been attempted and only if there is a record; a run
\* with no image to process (none found, or all processed) returns without
\* a write.
C27_OneWriteAtTheEnd == [][WriteAtTheEnd]_vars /\ [](WritesCounted)

\* a run of two images has written its one record after both passes
C27_Witness ==
    /\ Done
    /\ Len(batch.images) = 2
    /\ Len(batch.attempts) = 2
    /\ Len(batch.records) = 1
    /\ batch.writes = 1
    /\ Len(sink.rows) = 1

\* the entries of the log, and the records, of an image of the audit
LogOf(f) == {batch.log[j] : j \in {k \in 1..Len(batch.log) : batch.log[k].file = f}}
AuditRecordsOf(records, f) ==
    {records[j] : j \in {k \in 1..Len(records) : records[k].image_id = f}}

\* an image on which only progress_callback raised has its log entry and
\* its record, which is returned and, once the run has ended, in the sheet
CallbackFailureKeepsRecord ==
    \A f \in Files :
        (\E e \in LogOf(f) : e.exc = "CallbackError") =>
            /\ Cardinality(AuditRecordsOf(batch.records, f)) = 1
            /\ Done => /\ AuditRecordsOf(batch.written, f) = AuditRecordsOf(batch.records, f)
                       /\ \A r \in AuditRecordsOf(batch.records, f) :
                              \E j \in 1..Len(sink.rows) : sink.rows[j] = to_row(r)

\* an image whose download or analysis raised has no record
OtherFailureNoRecord ==
    \A f \in Files :
        (\E e \in LogOf(f) : e.exc # "CallbackError") =>
            /\ AuditRecordsOf(batch.records, f) = {}
            /\ Done => AuditRecordsOf(batch.written, f) = {}

\* C28: run_audit appends the record of an image before it calls
\* progress_callback: when progress_callback raises, the error is logged
\* and the record is still returned and written to the sheet; when the
\* download or the analysis raises, no record of the image is written.
C28_RecordBeforeCallback ==
    ((InLoop \/ Done) /\ batch.op = "run_audit") =>
        (CallbackFailureKeepsRecord /\ OtherFailureNoRecord)

\* an audit has ended in which the download of one image raised and
\* progress_callback raised on the other, whose row is in the sheet
C28_Witness ==
    /\ Done
    /\ batch.op = "run_audit"
    /\ \E f, g \in Files :
           /\ \E e \in LogOf(f) : e.exc = "CallbackError"
           /\ \E e \in LogOf(g) : e.exc = "HttpError"
           /\ \E j \in 1..Len(sink.rows) : sink.rows[j].image_id = f
           /\ \A j \in 1..Len(sink.rows) : sink.rows[j].image_id # g

(***************************************************************************)
(* The technician role on the local path, checked under Spec.              *)
(***************************************************************************)
\* the pair the patterns give on the text of the technician region of the
\* last local analysis
LastExtracted == extract_technician(last.tech_ocr.text)

\* C29: on the local path the role is carried through apart from the name:
\* when the patterns give a name and a role and normalize_tech_name(name)
\* is None, the TicketAnalysis has technician_name None and
\* technician_role the role as matched.
C29_RoleKeptWithoutName ==
    (IsLocalAnalysis /\ ~last.out.raised /\ last.tech_ocr.kind = "ok") =>
        ((LastExtracted[2] # NoneVal /\ normalize_tech_name(LastExtracted[1]) = NoneVal) =>
            /\ last.out.result.technician_name = NoneVal
            /\ last.out.result.technician_role = LastExtracted[2])

\* "by Xqzw V Helper" gave no technician and the role "Helper"
C29_Witness ==
    /\ IsLocalAnalysis
    /\ ~last.out.raised
    /\ last.tech_ocr = OcrText(T_UNKNOWN)
    /\ last.out.result.technician_name = NoneVal
    /\ last.out.result.technician_role = <<"H", "e", "l", "p", "e", "r">>

(***************************************************************************)
(* add_known_tech without a lock, checked under SpecThreads.               *)
(***************************************************************************)
\* how often a name is in a list
Count(list, name) == Cardinality({j \in 1..Len(list) : list[j] = name})

\* a list in the order list.sort() leaves, equal neighbours allowed
InSortOrder(list) == \A j \in 1..(Len(list) - 1) : ~StrLess(list[j + 1], list[j])

\* the threads that have passed the membership test with a name and have
\* appended it
Appended(name) == {t \in Threads : /\ threads[t].pc \in {"sort", "returned"}
                                     /\ threads[t].name = name
                                     /\ threads[t].appended}

\* every thread that passed the test appends, whatever the other threads
\* have appended meanwhile: a name is in the list once for the initial list
\* and once for each such thread
EveryPassedTestAppends ==
    \A name \in ThreadNames :
        Count(KNOWN_TECHS, name)
            = Count(INITIAL_KNOWN_TECHS, name) + Cardinality(Appended(name))

\* the list is out of order only between the append and the sort of a
\* thread, and a lookup that met it out of order was made there
UnsortedOnlyBeforeSort ==
    /\ ~InSortOrder(KNOWN_TECHS) => \E t \in Threads : threads[t].pc = "sort"
    /\ (IsNormalizeCall /\ ~InSortOrder(last.seen)) => last.sorting # {}

\* C30: add_known_tech is a membership test, an append and a sort that
\* other threads can come between: two threads that register one new name
\* can both pass the test, and the name is then twice in KNOWN_TECHS; a
\* normalize_tech_name call between the append and the sort of a thread
\* finds a list that is not sorted.
C30_RegistrationNotAtomic == EveryPassedTestAppends /\ UnsortedOnlyBeforeSort

\* two threads have registered "Koby A" and returned, the name is twice in
\* the list, and the lookup made between an append and its sort found
\* "Koby A" behind the last name of the list
C30_Witness ==
    /\ \A t \in Threads : threads[t].pc = "returned"
    /\ Count(KNOWN_TECHS, <<"K", "o", "b", "y", " ", "A">>) = 2
    /\ IsNormalizeCall
    /\ ~InSortOrder(last.seen)
    /\ last.seen[Len(last.seen)] = <<"K", "o", "b", "y", " ", "A">>

====
